---- MODULE Spec2Model ----
(***************************************************************************)
(* The concurrent datapoints fetch engine of cognite/client/_api/          *)
(* datapoints.py: dps_fetch_selector, EagerDpsFetcher, ChunkingDpsFetcher. *)
(*                                                                         *)
(* Datapoints of a series sit on the integer timestamps 0 .. D-1, so a     *)
(* page of datapoints is an interval [from, to) and a count is a width.    *)
(* The per-series task, the subtask, the priority pool and                 *)
(* split_into_n_parts live in modules that are not part of the source      *)
(* tree at hand (datapoint_tasks, _priority_tpe, _auxiliary); they are     *)
(* modelled from their documented contracts.                               *)
(***************************************************************************)
EXTENDS Integers, Sequences, FiniteSets, TLC

(* ------------------------- program constants -------------------------- *)
DPS_LIMIT_AGG == 10000
DPS_LIMIT == 100000
FETCH_TS_LIMIT == 100
POST_DPS_OBJECTS_LIMIT == 10000

\* `limit=None` of a query: no limit.
NoLimit == -1
\* A series the server does not know.
Missing == -1

(* ------------------------------ bounds -------------------------------- *)
MaxWorkers == 2
MaxQueries == 3
\* Dynamic splits of a subtask on a full page, per fetch.
MaxSplits == 1
\* Fetches of many series: the limited raw queries number a multiple of
\* FETCH_TS_LIMIT (up to MaxHundreds of them) less at most MaxExtra.
MaxHundreds == 2
MaxExtra == 1
MaxFailures == 1   \* requests that fail in one invocation
MaxObjects == 3    \* objects handed to one insert

(* ------------------------------ helpers ------------------------------- *)
Min(a, b) == IF a <= b THEN a ELSE b
Max(a, b) == IF a >= b THEN a ELSE b
CeilDiv(a, b) == (a + b - 1) \div b

\* f[lo] + ... + f[hi], by halves. (The folds below that thread a state through
\* their rounds bind the first half's result before they start the second.)
RECURSIVE SumRange(_, _, _)
SumRange(f, lo, hi) ==
  IF lo > hi THEN 0
  ELSE IF lo = hi THEN f[lo]
  ELSE SumRange(f, lo, (lo + hi) \div 2) + SumRange(f, (lo + hi) \div 2 + 1, hi)

SeqSum(s) == SumRange(s, 1, Len(s))

(* ------------------------------ server -------------------------------- *)
\* The series the server holds: identifier -> number of datapoints (on the
\* timestamps 0 .. D-1), or Missing.
Series(ident) ==
  CASE ident = 1 -> 120000
    [] ident = 2 -> 15000
    [] ident = 3 -> 25000
    [] ident = 6 -> 200000
    [] OTHER -> Missing

\* Every query of the model asks for [0, RangeEnd).
RangeEnd == 200000

\* POST /timeseries/data/list, one item: the datapoints of [start, end)
\* from the left, at most `limit` of them; returned as the interval's end.
ServerPageEnd(ident, start, end, limit) ==
  Max(start, Min(Min(end, Series(ident)), start + limit))

(* ------------------------------ queries ------------------------------- *)
Query(ident, is_raw, limit, ignore) ==
  [ident |-> ident, is_raw_query |-> is_raw, limit |-> limit,
   ignore_unknown_ids |-> ignore]

RequestMaxLimit(is_raw) == IF is_raw THEN DPS_LIMIT ELSE DPS_LIMIT_AGG

\* _SingleTSQueryBase.capped_limit: min of the user's limit and the ceiling.
capped_limit(q) ==
  IF q.limit = NoLimit THEN RequestMaxLimit(q.is_raw_query)
  ELSE Min(q.limit, RequestMaxLimit(q.is_raw_query))

(* ----------------------- dps_fetch_selector --------------------------- *)
UseEagerPlus1(n_queries, workers) == n_queries <= workers + 1
UseEager(n_queries, workers) == n_queries <= workers

(* ------------------- Phase A: chunks and limits ----------------------- *)
\* split_into_n_parts(seq, n): part i (0-based) takes seq[i::n].
split_into_n_parts(seq, n) ==
  [i \in 1..n |->
     [j \in 1..(IF Len(seq) >= i THEN (Len(seq) - i) \div n + 1 ELSE 0) |->
        seq[i + (j - 1) * n]]]

\* The while loop of _find_initial_query_limits, from one round on.
RECURSIVE FindLimitsLoop(_, _, _, _)
FindLimitsLoop(actual_lims, limits, not_done, max_limit) ==
  LET Round(part, i_part) ==
        IF part = 0 THEN actual_lims
        ELSE FindLimitsLoop(
               [i \in DOMAIN actual_lims |->
                  IF i \in not_done THEN actual_lims[i] + i_part[i]
                  ELSE actual_lims[i]],
               [i \in DOMAIN limits |->
                  IF i \in not_done THEN limits[i] - i_part[i]
                  ELSE limits[i]],
               {i \in not_done : i_part[i] # limits[i]},
               max_limit - SeqSum([i \in DOMAIN limits |->
                                     IF i \in not_done THEN i_part[i] ELSE 0]))
  IN IF not_done = {} THEN actual_lims
     ELSE Round(max_limit \div Cardinality(not_done),
                [i \in not_done |->
                   Min(max_limit \div Cardinality(not_done), limits[i])])

UncappedInitialQueryLimits(limits, max_limit) ==
  [i \in DOMAIN limits |-> max_limit]
OneRoundOfLimits(limits, max_limit) ==
  [i \in DOMAIN limits |->
     IF Len(limits) = 0 THEN 0 ELSE Min(max_limit \div Len(limits), limits[i])]
_find_initial_query_limits(limits, max_limit) ==
  FindLimitsLoop([i \in DOMAIN limits |-> 0], limits, DOMAIN limits, max_limit)

(* ------------------------------- state -------------------------------- *)
VARIABLES
  max_workers,        \* dps_client._config.max_workers
  all_queries,        \* the expanded single-series queries, in user order
  pc,                 \* where the caller's (scheduler) thread is
  mode,               \* the fetcher dps_fetch_selector returned
  futs,               \* every submission to the pool, in submission order
  tracked,            \* futures_dct / initial_futures_dct: the tracked futures
  ts_task_lookup,     \* insertion-ordered dict query -> task, as its key list
  tasks,              \* per query: its per-series task
  subs,               \* every subtask created, in creation order
  agg_subtask_pool,   \* heap of aggregate subtasks
  raw_subtask_pool,   \* heap of raw subtasks
  next_items,         \* partial payload carried over to the next tick
  next_subtasks,      \* ... and its subtasks
  missing_to_raise,   \* Phase A: missing queries with ignore_unknown_ids=false
  initial_query_limits, \* Phase A: query -> limit sent for it
  n_splits,           \* dynamic splits done so far
  outcome,            \* what fetch_all_datapoints gave its caller
  bins,               \* DatapointsPoster.bins
  dps_object_list,    \* _bin_datapoints: the validated objects still to bin
  dps_offset          \* ... and the index i into the first of them

vars == <<max_workers, all_queries, pc, mode, futs, tracked, ts_task_lookup,
          tasks, subs, agg_subtask_pool, raw_subtask_pool, next_items,
          next_subtasks, missing_to_raise, initial_query_limits, n_splits,
          outcome, bins, dps_object_list, dps_offset>>

\* The inserting side: a poster is made per insert; none during a fetch.
poster_vars == <<bins, dps_object_list, dps_offset>>
NoPoster == bins = <<>> /\ dps_object_list = <<>> /\ dps_offset = 0

QIdx == 1..Len(all_queries)
NoOutcome == [kind |-> "none"]

(* ----------------------- per-series task, subtask --------------------- *)
NoTask == [created |-> FALSE]

has_limit(q) == all_queries[q].limit # NoLimit

\* BaseConcurrentTask(query, eager_mode, first_dps_batch, first_limit): the
\* task owns the first batch [0, seed) when it was created from one.
NewTask(q, seed, finished) ==
  [created |-> TRUE, seed |-> seed, n_dps_fetched |-> seed,
   is_done_flag |-> finished, subtasks |-> {},
   max_query_limit |-> RequestMaxLimit(all_queries[q].is_raw_query)]

NewSubtask(q, start, end, priority, mql) ==
  [parent |-> q, orig_start |-> start, start |-> start, end |-> end,
   priority |-> priority, is_done |-> FALSE, max_query_limit |-> mql]

\* BaseConcurrentTask.is_done: flagged done (missing, limit reached, finished
\* by its first batch) or every subtask done.
TaskIsDone(tsk, sbs) ==
  /\ tsk.created
  /\ \/ tsk.is_done_flag
     \/ /\ tsk.subtasks # {}
        /\ \A s \in tsk.subtasks : sbs[s].is_done

\* Subtask.n_dps_left: what the parent's limit leaves to fetch (-1: no limit).
n_dps_left(q, tsk) ==
  IF has_limit(q) THEN Max(0, all_queries[q].limit - tsk.n_dps_fetched)
  ELSE NoLimit

PayloadLimit(q, tsk, mql) ==
  IF n_dps_left(q, tsk) = NoLimit THEN mql ELSE Min(n_dps_left(q, tsk), mql)

\* Subtask.get_next_payload(): the next request item, or <<>> for None.
get_next_payload(s, tks, sbs) ==
  LET sub == sbs[s]
      q == sub.parent
  IN IF sub.is_done \/ TaskIsDone(tks[q], sbs) \/ sub.start >= sub.end
        \/ n_dps_left(q, tks[q]) = 0
     THEN <<>>
     ELSE <<[q |-> q, ident |-> all_queries[q].ident,
             is_raw_query |-> all_queries[q].is_raw_query,
             start |-> sub.start, end |-> sub.end,
             limit |-> PayloadLimit(q, tks[q], sub.max_query_limit)]>>

\* How many subtasks split_into_subtasks makes: one for a query with a limit
\* (fetched serially), else as many as the workers per query allow.
NSubtasks(q, workers, n_tot_queries) ==
  IF has_limit(q) THEN 1 ELSE Max(1, workers \div n_tot_queries)

\* BaseConcurrentTask.split_into_subtasks: k subtasks covering [from, RangeEnd)
\* contiguously, earlier ranges at earlier priority; ids first_id, first_id+1 ...
SplitIntoWholeRanges(q, from, k, mql) ==
  [i \in 1..k |-> NewSubtask(q, from, RangeEnd, i, mql)]
split_into_subtasks(q, from, k, mql) ==
  [i \in 1..k |->
     NewSubtask(q, from + ((i - 1) * (RangeEnd - from)) \div k,
                from + (i * (RangeEnd - from)) \div k, i, mql)]

\* The task's received chunks, ordered by subrange: the first batch and what
\* each subtask fetched, [orig_start, start); empty chunks left out.
RECURSIVE SortedChunks(_)
SortedChunks(S) ==
  IF S = {} THEN <<>>
  ELSE LET c == CHOOSE x \in S : \A y \in S : x[1] <= y[1]
       IN <<c>> \o SortedChunks(S \ {c})

RECURSIVE MergeAdjacent(_)
MergeAdjacent(cs) ==
  IF Len(cs) < 2 THEN cs
  ELSE IF cs[1][2] = cs[2][1]
       THEN MergeAdjacent(<<<<cs[1][1], cs[2][2]>>>> \o SubSeq(cs, 3, Len(cs)))
       ELSE <<cs[1]>> \o MergeAdjacent(Tail(cs))

\* BaseConcurrentTask.get_result(): the datapoints in timestamp order, as
\* maximal runs <<from, to>> of consecutive timestamps.
get_result(tsk, sbs) ==
  MergeAdjacent(SortedChunks(
    {<<0, tsk.seed>> : x \in (IF tsk.seed > 0 THEN {1} ELSE {})}
    \cup {<<sbs[s].orig_start, sbs[s].start>> :
            s \in {t \in tsk.subtasks : sbs[t].start > sbs[t].orig_start}}))

RECURSIVE ChunksWidth(_)
ChunksWidth(cs) ==
  IF cs = <<>> THEN 0 ELSE (cs[1][2] - cs[1][1]) + ChunksWidth(Tail(cs))

\* SplittingFetchSubtask.store_partial_result(res) for the page [item.start,
\* page_end) answering `item`. A prefix overlapping what the subtask already
\* holds is discarded. The subtask is done when the page came back short of
\* the requested limit or reached the end of its range, or when the parent's
\* limit is reached. With do_split, a subtask that goes on hands the later
\* half of its remaining range to a new subtask.
store_partial_result(tks, sbs, s, item, page_end, do_split) ==
  LET sub == sbs[s]
      q == sub.parent
      new_start == Max(sub.start, page_end)
      n_new == new_start - sub.start
      fetched == tks[q].n_dps_fetched + n_new
      short == (page_end - item.start) < item.limit
      limit_hit == has_limit(q) /\ fetched >= all_queries[q].limit
      done == short \/ new_start >= sub.end \/ limit_hit
      splits == do_split /\ ~done /\ ~has_limit(q) /\ sub.end - new_start >= 2
      mid == (new_start + sub.end) \div 2
      new_id == Len(sbs) + 1
      sub1 == [sub EXCEPT !.start = new_start, !.is_done = done,
                          !.end = IF splits THEN mid ELSE sub.end]
      Split(x) == IF splits
                  THEN Append(x, NewSubtask(q, mid, sub.end, sub.priority + 1,
                                            sub.max_query_limit))
                  ELSE x
      sbs2 == Split([sbs EXCEPT ![s] = sub1])
      MarkDone(x) == [t \in DOMAIN x |->
                        IF x[t].parent = q THEN [x[t] EXCEPT !.is_done = TRUE]
                        ELSE x[t]]
      Marked(x) == IF limit_hit THEN MarkDone(x) ELSE x
      sbs3 == Marked(sbs2)
      tsk1 == [tks[q] EXCEPT
                 !.n_dps_fetched = fetched,
                 !.is_done_flag = tks[q].is_done_flag \/ limit_hit,
                 !.subtasks = IF splits THEN tks[q].subtasks \cup {new_id}
                              ELSE tks[q].subtasks]
  IN [tasks |-> [tks EXCEPT ![q] = tsk1], subs |-> sbs3,
      new_subtasks |-> IF splits THEN <<new_id>> ELSE <<>>]

(* --------------------------- priority pool ---------------------------- *)
\* A submission to the pool. `carried` records how many of a combined
\* request's items were buffered in next_items on an earlier tick.
Future(kind, pnum, pden, subtask_lst, items, chunk_agg_qs, chunk_raw_qs) ==
  [kind |-> kind, state |-> "pending", pnum |-> pnum, pden |-> pden,
   subtask_lst |-> subtask_lst, items |-> items,
   chunk_agg_qs |-> chunk_agg_qs, chunk_raw_qs |-> chunk_raw_qs,
   carried |-> 0]

Pending(fs) == {f \in DOMAIN fs : fs[f].state = "pending"}
Running(fs) == {f \in DOMAIN fs : fs[f].state = "running"}

\* pool._work_queue.qsize(): the submissions no worker has started.
qsize(fs) == Cardinality(Pending(fs))

\* a goes before b: smaller priority (pnum/pden), then earlier submission.
SubmittedBefore(fs, a, b) == a < b
GoesBefore(fs, a, b) ==
  \/ fs[a].pnum * fs[b].pden < fs[b].pnum * fs[a].pden
  \/ /\ fs[a].pnum * fs[b].pden = fs[b].pnum * fs[a].pden
     /\ a < b

\* The pool lives from the entry of the `with` block of fetch_all_datapoints
\* until the block has been left: fetch_all has begun, returned or raised.
PoolIsUp == pc \in {"eager", "phaseA", "phaseB", "done", "error"} /\ mode # "none"

\* A free worker takes the first pending submission. EagerDpsFetcher.
\* request_datapoints_jit builds the payload now; with nothing left to fetch
\* it returns [None] without a request.
WorkerSendsAlways ==
  /\ PoolIsUp
  /\ Cardinality(Running(futs)) < max_workers
  /\ \E f \in Pending(futs) :
       /\ \A g \in Pending(futs) \ {f} : GoesBefore(futs, f, g)
       /\ IF futs[f].kind = "jit"
          THEN LET item == get_next_payload(futs[f].subtask_lst[1], tasks, subs)
               IN futs' = [futs EXCEPT
                             ![f].state = "running",
                             ![f].items = item]
          ELSE futs' = [futs EXCEPT ![f].state = "running"]
  /\ UNCHANGED poster_vars
  /\ UNCHANGED <<max_workers, all_queries, pc, mode, tracked, ts_task_lookup,
                 tasks, subs, agg_subtask_pool, raw_subtask_pool, next_items,
                 next_subtasks, missing_to_raise, initial_query_limits,
                 n_splits, outcome>>
WorkerStart ==
  /\ PoolIsUp
  /\ Cardinality(Running(futs)) < max_workers
  /\ \E f \in Pending(futs) :
       /\ \A g \in Pending(futs) \ {f} : GoesBefore(futs, f, g)
       /\ IF futs[f].kind = "jit"
          THEN LET item == get_next_payload(futs[f].subtask_lst[1], tasks, subs)
               IN futs' = [futs EXCEPT
                             ![f].state = IF item = <<>> THEN "done" ELSE "running",
                             ![f].items = item]
          ELSE futs' = [futs EXCEPT ![f].state = "running"]
  /\ UNCHANGED poster_vars
  /\ UNCHANGED <<max_workers, all_queries, pc, mode, tracked, ts_task_lookup,
                 tasks, subs, agg_subtask_pool, raw_subtask_pool, next_items,
                 next_subtasks, missing_to_raise, initial_query_limits,
                 n_splits, outcome>>

\* The request of a running submission comes back.
WorkerFinish ==
  /\ PoolIsUp
  /\ \E f \in Running(futs) : futs' = [futs EXCEPT ![f].state = "done"]
  /\ UNCHANGED poster_vars
  /\ UNCHANGED <<max_workers, all_queries, pc, mode, tracked, ts_task_lookup,
                 tasks, subs, agg_subtask_pool, raw_subtask_pool, next_items,
                 next_subtasks, missing_to_raise, initial_query_limits,
                 n_splits, outcome>>

\* fetch_all_datapoints leaves its `with` block after fetch_all returned or
\* raised: the executor's exit joins the workers, so it waits for the requests
\* in flight; submissions no worker has started may be dropped. The caller
\* then gets the result (_finalize_tasks) or the error.
PoolExit ==
  /\ pc \in {"done", "error"}
  /\ mode # "none"
  /\ Running(futs) = {}
  /\ pc' = "returned"
  /\ UNCHANGED poster_vars
  /\ UNCHANGED <<max_workers, all_queries, mode, futs, tracked, ts_task_lookup,
                 tasks, subs, agg_subtask_pool, raw_subtask_pool, next_items,
                 next_subtasks, missing_to_raise, initial_query_limits,
                 n_splits, outcome>>

(* ------------------------------ inputs -------------------------------- *)
\* The single-series queries a user query may expand to.
QueryChoices ==
  { Query(1, TRUE, NoLimit, FALSE),   \* raw, two pages
    Query(1, TRUE, 110000, FALSE),    \* raw, limit inside the second page
    Query(2, FALSE, NoLimit, FALSE),  \* aggregates, two pages
    Query(2, TRUE, 5000, TRUE),       \* raw, limit inside the first page
    Query(4, TRUE, NoLimit, TRUE),    \* missing, tolerated
    Query(5, TRUE, NoLimit, FALSE),   \* missing, not tolerated
    Query(1, TRUE, -2, FALSE) }       \* a limit the validator rejects

QueryLists(n) == UNION {[1..k -> QueryChoices] : k \in 1..n}

IdleState ==
  /\ NoPoster
  /\ pc = "init"
  /\ mode = "none"
  /\ futs = <<>>
  /\ tracked = {}
  /\ ts_task_lookup = <<>>
  /\ tasks = [q \in QIdx |-> NoTask]
  /\ subs = <<>>
  /\ agg_subtask_pool = <<>>
  /\ raw_subtask_pool = <<>>
  /\ next_items = <<>>
  /\ next_subtasks = <<>>
  /\ missing_to_raise = {}
  /\ initial_query_limits = [q \in QIdx |-> 0]
  /\ n_splits = 0
  /\ outcome = NoOutcome

Init ==
  /\ max_workers \in 0..MaxWorkers
  /\ all_queries \in QueryLists(MaxQueries)
  /\ IdleState

(* ----------------------- dps_fetch_selector --------------------------- *)
\* _SingleTSQueryValidator: a limit is none, zero or positive.
ValidQuery(query) == query.limit = NoLimit \/ query.limit >= 0

\* validate_and_split_user_queries raises on the first user query its
\* validator rejects.
ValidationFails(user_queries) ==
  \E i \in DOMAIN user_queries : ~ValidQuery(user_queries[i])

SelectError(error) == [kind |-> "error", error |-> error, idents |-> {}]

SelectUnvalidated ==
  /\ pc = "init"
  /\ IF max_workers < 1
     THEN /\ pc' = "error"
          /\ outcome' = SelectError("RuntimeError")
          /\ mode' = mode
     ELSE /\ pc' = "selected"
          /\ mode' = IF UseEager(Len(all_queries), max_workers)
                     THEN "eager" ELSE "chunking"
          /\ outcome' = outcome
  /\ UNCHANGED poster_vars
  /\ UNCHANGED <<max_workers, all_queries, futs, tracked, ts_task_lookup,
                 tasks, subs, agg_subtask_pool, raw_subtask_pool, next_items,
                 next_subtasks, missing_to_raise, initial_query_limits,
                 n_splits>>
Select ==
  /\ pc = "init"
  /\ IF max_workers < 1
     THEN /\ pc' = "error"
          /\ outcome' = SelectError("RuntimeError")
          /\ mode' = mode
     ELSE IF ValidationFails(all_queries)
     THEN /\ pc' = "error"
          /\ outcome' = SelectError("ValueError")
          /\ mode' = mode
     ELSE /\ pc' = "selected"
          /\ mode' = IF UseEager(Len(all_queries), max_workers)
                     THEN "eager" ELSE "chunking"
          /\ outcome' = outcome
  /\ UNCHANGED poster_vars
  /\ UNCHANGED <<max_workers, all_queries, futs, tracked, ts_task_lookup,
                 tasks, subs, agg_subtask_pool, raw_subtask_pool, next_items,
                 next_subtasks, missing_to_raise, initial_query_limits,
                 n_splits>>

(* --------------------------- result assembly -------------------------- *)
\* list(filter(None, map(ts_task_lookup.get, self.all_queries))), each task
\* then materialised by _finalize_tasks.
ReversedResults(lookup, tks, sbs) ==
  LET Finalized(kept) ==
        [k \in DOMAIN kept |-> [q |-> kept[k], dps |-> get_result(tks[kept[k]], sbs)]]
  IN Finalized(SelectSeq([i \in 1..Len(all_queries) |-> Len(all_queries) + 1 - i],
                         LAMBDA i : \E j \in DOMAIN lookup : lookup[j] = i))
OrderedResults(lookup, tks, sbs) ==
  LET Finalized(kept) ==
        [k \in DOMAIN kept |-> [q |-> kept[k], dps |-> get_result(tks[kept[k]], sbs)]]
  IN Finalized(SelectSeq([i \in 1..Len(all_queries) |-> i],
                         LAMBDA i : \E j \in DOMAIN lookup : lookup[j] = i))
_finalize_tasks(lookup, tks, sbs) ==
  [kind |-> "result", series |-> OrderedResults(lookup, tks, sbs)]

KeepKey(lookup, q) == lookup
RemoveKey(lookup, q) == SelectSeq(lookup, LAMBDA x : x # q)

AllDone(lookup, tks, sbs) ==
  \A j \in DOMAIN lookup : TaskIsDone(tks[lookup[j]], sbs)

(* ---------------------------- Eager fetcher --------------------------- *)
\* EagerDpsFetcher._create_initial_tasks, query i onwards.
RECURSIVE EagerInitialTasks(_, _, _, _)
EagerInitialTasks(i, tks, sbs, fs) ==
  IF i > Len(all_queries) THEN [tasks |-> tks, subs |-> sbs, futs |-> fs]
  ELSE LET tsk == NewTask(i, 0, FALSE)
           new == split_into_subtasks(
                    i, 0, NSubtasks(i, max_workers, Len(all_queries)),
                    tsk.max_query_limit)
           ids == {Len(sbs) + j : j \in DOMAIN new}
       IN EagerInitialTasks(
            i + 1,
            [tks EXCEPT ![i] = [tsk EXCEPT !.subtasks = ids]],
            sbs \o new,
            fs \o [j \in DOMAIN new |->
                     Future("jit", new[j].priority, 1, <<Len(sbs) + j>>,
                            <<>>, <<>>, <<>>)])

EagerCreateInitialTasks ==
  /\ pc = "selected"
  /\ mode = "eager"
  /\ LET r == EagerInitialTasks(1, tasks, subs, futs)
     IN /\ tasks' = r.tasks
        /\ subs' = r.subs
        /\ futs' = r.futs
        /\ tracked' = DOMAIN r.futs
  /\ ts_task_lookup' = [i \in QIdx |-> i]
  /\ pc' = "eager"
  /\ UNCHANGED poster_vars
  /\ UNCHANGED <<max_workers, all_queries, mode, agg_subtask_pool,
                 raw_subtask_pool, next_items, next_subtasks, missing_to_raise,
                 initial_query_limits, n_splits, outcome>>

\* EagerDpsFetcher._queue_new_subtasks: one submission per subtask.
RECURSIVE EagerQueueTwice(_, _, _)
RECURSIVE EagerQueue(_, _, _)
EagerQueueTwice(fs, sbs, new_subtasks) ==
  IF new_subtasks = <<>> THEN fs
  ELSE LET Twice(fut) == Append(Append(fs, fut), fut)
       IN EagerQueueTwice(
            Twice(Future("jit", sbs[Head(new_subtasks)].priority, 1,
                         <<Head(new_subtasks)>>, <<>>, <<>>, <<>>)),
            sbs, Tail(new_subtasks))
EagerQueue(fs, sbs, new_subtasks) ==
  IF new_subtasks = <<>> THEN fs
  ELSE EagerQueue(
         Append(fs, Future("jit", sbs[Head(new_subtasks)].priority, 1,
                           <<Head(new_subtasks)>>, <<>>, <<>>, <<>>)),
         sbs, Tail(new_subtasks))

\* _cancel_futures_for_finished_ts_task: cancel() every tracked future of the
\* task (it takes effect on one no worker has started) and stop tracking it.
FuturesOf(q, fs, trk, sbs) ==
  {f \in trk : sbs[fs[f].subtask_lst[1]].parent = q}

UntrackOnly(q, fs, trk, sbs) ==
  [futs |-> fs, tracked |-> trk \ FuturesOf(q, fs, trk, sbs)]
CancelOnly(q, fs, trk, sbs) ==
  [futs |-> [f \in DOMAIN fs |->
               IF f \in FuturesOf(q, fs, trk, sbs) /\ fs[f].state = "pending"
               THEN [fs[f] EXCEPT !.state = "cancelled"] ELSE fs[f]],
   tracked |-> trk]
_cancel_futures_for_finished_ts_task(q, fs, trk, sbs) ==
  [futs |-> [f \in DOMAIN fs |->
               IF f \in FuturesOf(q, fs, trk, sbs) /\ fs[f].state = "pending"
               THEN [fs[f] EXCEPT !.state = "cancelled"] ELSE fs[f]],
   tracked |-> trk \ FuturesOf(q, fs, trk, sbs)]

SplitChoices == IF n_splits < MaxSplits THEN BOOLEAN ELSE {FALSE}

\* _get_result_with_exception_handling on a 400 "missing" CogniteAPIError:
\* re-raised unless the task's query tolerates unknown ids.
ReraiseAlways(q) == TRUE
ReraiseNever(q) == FALSE
ReraiseMissing(q) == ~all_queries[q].ignore_unknown_ids

ApiError(idents) == [kind |-> "error", error |-> "not_found", idents |-> idents]

\* One round of the while loop of EagerDpsFetcher.fetch_all: the next
\* completed future, _get_result_with_exception_handling, then the rest.
EagerStep ==
  /\ pc = "eager"
  /\ \E f \in tracked, do_split \in SplitChoices :
       /\ futs[f].state = "done"
       /\ LET s == futs[f].subtask_lst[1]
              q == subs[s].parent
              trk == tracked \ {f}
              items == futs[f].items
          IN IF items = <<>>
             THEN \* [None]: nothing was requested
                  /\ tracked' = trk
                  /\ UNCHANGED <<pc, futs, ts_task_lookup, tasks, subs,
                                 n_splits, outcome>>
             ELSE IF Series(items[1].ident) = Missing
             THEN \* CogniteAPIError, code 400, with the missing identifier
                  IF ReraiseMissing(q)
                  THEN /\ pc' = "error"
                       /\ outcome' = ApiError({items[1].ident})
                       /\ tracked' = trk
                       /\ UNCHANGED <<futs, ts_task_lookup, tasks, subs, n_splits>>
                  ELSE IF TaskIsDone(tasks[q], subs)
                  THEN /\ tracked' = trk
                       /\ UNCHANGED <<pc, futs, ts_task_lookup, tasks, subs,
                                      n_splits, outcome>>
                  ELSE LET Cancel(c) == /\ futs' = c.futs
                                        /\ tracked' = c.tracked
                       IN /\ tasks' = [tasks EXCEPT ![q].is_done_flag = TRUE]
                          /\ ts_task_lookup' = RemoveKey(ts_task_lookup, q)
                          /\ Cancel(_cancel_futures_for_finished_ts_task(
                                      q, futs, trk, subs))
                          /\ UNCHANGED <<pc, subs, n_splits, outcome>>
             ELSE LET Queued(r, fs1, trk1) ==
                        /\ tasks' = r.tasks
                        /\ subs' = r.subs
                        /\ n_splits' = n_splits + Len(r.new_subtasks)
                        /\ ts_task_lookup' = ts_task_lookup
                        /\ IF TaskIsDone(r.tasks[q], r.subs)
                           THEN IF AllDone(ts_task_lookup, r.tasks, r.subs)
                                THEN \* pool.shutdown(wait=False); break
                                     /\ pc' = "done"
                                     /\ outcome' = _finalize_tasks(
                                          ts_task_lookup, r.tasks, r.subs)
                                     /\ futs' = fs1
                                     /\ tracked' = trk1
                                ELSE IF has_limit(q)
                                THEN LET Cancel(c) == /\ futs' = c.futs
                                                      /\ tracked' = c.tracked
                                     IN /\ Cancel(_cancel_futures_for_finished_ts_task(
                                                    q, fs1, trk1, r.subs))
                                        /\ UNCHANGED <<pc, outcome>>
                                ELSE /\ futs' = fs1
                                     /\ tracked' = trk1
                                     /\ UNCHANGED <<pc, outcome>>
                           ELSE IF r.subs[s].is_done
                           THEN /\ futs' = fs1
                                /\ tracked' = trk1
                                /\ UNCHANGED <<pc, outcome>>
                           ELSE /\ futs' = EagerQueue(fs1, r.subs, <<s>>)
                                /\ tracked' = trk1 \cup {Len(fs1) + 1}
                                /\ UNCHANGED <<pc, outcome>>
                      Requeued(r, fs1) ==
                        Queued(r, fs1, trk \cup (DOMAIN fs1 \ DOMAIN futs))
                      Stored(r) ==
                        Requeued(r, EagerQueue(futs, r.subs, r.new_subtasks))
                  IN Stored(store_partial_result(
                              tasks, subs, s, items[1],
                              ServerPageEnd(items[1].ident, items[1].start,
                                            items[1].end, items[1].limit),
                              do_split))
  /\ UNCHANGED poster_vars
  /\ UNCHANGED <<max_workers, all_queries, mode, agg_subtask_pool,
                 raw_subtask_pool, next_items, next_subtasks, missing_to_raise,
                 initial_query_limits>>

\* `while futures_dct` ends: return the tasks of the lookup in query order.
EagerReturn ==
  /\ pc = "eager"
  /\ tracked = {}
  /\ pc' = "done"
  /\ outcome' = _finalize_tasks(ts_task_lookup, tasks, subs)
  /\ UNCHANGED poster_vars
  /\ UNCHANGED <<max_workers, all_queries, mode, futs, tracked, ts_task_lookup,
                 tasks, subs, agg_subtask_pool, raw_subtask_pool, next_items,
                 next_subtasks, missing_to_raise, initial_query_limits, n_splits>>

NextEager ==
  \/ Select
  \/ EagerCreateInitialTasks
  \/ WorkerStart
  \/ WorkerFinish
  \/ EagerStep
  \/ EagerReturn
  \/ PoolExit

\* Inputs that dps_fetch_selector sends to the Eager fetcher.
InitEager ==
  /\ max_workers \in 0..MaxWorkers
  /\ all_queries \in QueryLists(Max(1, max_workers))
  /\ IdleState

SpecEager == InitEager /\ [][NextEager]_vars

(* -------------------------- Chunking, Phase A ------------------------- *)
\* validate_and_split_user_queries: the queries of each flavor, in order.
agg_queries == SelectSeq([i \in QIdx |-> i], LAMBDA i : ~all_queries[i].is_raw_query)
raw_queries == SelectSeq([i \in QIdx |-> i], LAMBDA i : all_queries[i].is_raw_query)

\* n_queries of _create_initial_tasks: the number of Phase A requests.
OneRequestPerWorker(workers, n) == workers
NInitialRequests(workers, n) == Max(workers, CeilDiv(n, FETCH_TS_LIMIT))

\* The items of one flavor of a Phase A request: to_payload() of each query of
\* the chunk with the limit _find_initial_query_limits gives it.
InitialItems(queries, max_lim) ==
  LET Items(maxed_limits) ==
        [j \in DOMAIN queries |->
           [q |-> queries[j], ident |-> all_queries[queries[j]].ident,
            is_raw_query |-> all_queries[queries[j]].is_raw_query,
            start |-> 0, end |-> RangeEnd, limit |-> maxed_limits[j]]]
  IN Items(_find_initial_query_limits(
             [j \in DOMAIN queries |-> capped_limit(all_queries[queries[j]])],
             max_lim))

\* ChunkingDpsFetcher._create_initial_tasks: one request per pair of chunks,
\* ignoreUnknownIds=true, priority 0.
InitialFutures(workers) ==
  LET Zip(agg_parts, raw_parts) ==
        [i \in DOMAIN agg_parts |->
           Future("initial", 0, 1, <<>>,
                  InitialItems(agg_parts[i], DPS_LIMIT_AGG)
                    \o InitialItems(raw_parts[i], DPS_LIMIT),
                  agg_parts[i], raw_parts[i])]
  IN Zip(split_into_n_parts(agg_queries,
                            NInitialRequests(workers, Len(all_queries))),
         split_into_n_parts(raw_queries,
                            NInitialRequests(workers, Len(all_queries))))

ChunkCreateInitialTasks ==
  /\ pc = "selected"
  /\ mode = "chunking"
  /\ futs' = InitialFutures(max_workers)
  /\ tracked' = DOMAIN futs'
  /\ initial_query_limits' =
       [q \in QIdx |->
          LET LimitIn(items) ==
                items[CHOOSE k \in DOMAIN items : items[k].q = q].limit
          IN LimitIn(futs'[CHOOSE g \in DOMAIN futs' :
                             \E j \in DOMAIN futs'[g].items :
                               futs'[g].items[j].q = q].items)]
  /\ pc' = "phaseA"
  /\ UNCHANGED poster_vars
  /\ UNCHANGED <<max_workers, all_queries, mode, ts_task_lookup, tasks, subs,
                 agg_subtask_pool, raw_subtask_pool, next_items, next_subtasks,
                 missing_to_raise, n_splits, outcome>>

\* The server's answer to a request with ignoreUnknownIds=true: one entry per
\* item whose series exists, in request order.
ServerItems(items) ==
  LET Answer(present) ==
        [j \in DOMAIN present |->
           [ident |-> present[j].ident, from |-> present[j].start,
            to |-> ServerPageEnd(present[j].ident, present[j].start,
                                 present[j].end, present[j].limit)]]
  IN Answer(SelectSeq(items, LAMBDA it : Series(it.ident) # Missing))

\* ChunkingDpsFetcher._handle_missing_ts.
RaiseAllMissing(res, agg_qs, raw_qs) ==
  LET Handle(not_missing) ==
        [agg_queries |-> SelectSeq(agg_qs, LAMBDA q : all_queries[q].ident \in not_missing),
         raw_queries |-> SelectSeq(raw_qs, LAMBDA q : all_queries[q].ident \in not_missing),
         to_raise |-> {q \in {agg_qs[j] : j \in DOMAIN agg_qs}
                             \cup {raw_qs[j] : j \in DOMAIN raw_qs} :
                         all_queries[q].ident \notin not_missing}]
  IN Handle({res[j].ident : j \in DOMAIN res})
KeepMissing(res, agg_qs, raw_qs) ==
  [agg_queries |-> agg_qs, raw_queries |-> raw_qs,
   to_raise |-> RaiseAllMissing(res, agg_qs, raw_qs).to_raise]
_handle_missing_ts(res, agg_qs, raw_qs) ==
  LET Handle(not_missing) ==
        [agg_queries |-> SelectSeq(agg_qs, LAMBDA q : all_queries[q].ident \in not_missing),
         raw_queries |-> SelectSeq(raw_qs, LAMBDA q : all_queries[q].ident \in not_missing),
         to_raise |-> {q \in {agg_qs[j] : j \in DOMAIN agg_qs}
                             \cup {raw_qs[j] : j \in DOMAIN raw_qs} :
                         /\ all_queries[q].ident \notin not_missing
                         /\ ~all_queries[q].ignore_unknown_ids}]
  IN Handle({res[j].ident : j \in DOMAIN res})

\* The task made from a first batch: done when the batch came back short of
\* its limit, reached the end of the range, or filled the query's limit.
SeededTask(q, res, first_limit) ==
  LET n == res.to - res.from
  IN NewTask(q, n,
             \/ n < first_limit
             \/ res.to >= RangeEnd
             \/ (has_limit(q) /\ n >= all_queries[q].limit))

\* ChunkingDpsFetcher._create_ts_tasks_and_handle_missing.
_create_ts_tasks_and_handle_missing(results, chunk_agg_qs, chunk_raw_qs, limits) ==
  LET Align(qs, to_raise) ==
        [keys |-> SubSeq(qs, 1, Min(Len(results), Len(qs))),
         ts_tasks |-> [j \in 1..Min(Len(results), Len(qs)) |->
                         SeededTask(qs[j], results[j], limits[qs[j]])],
         to_raise |-> to_raise]
      Handled(h) == Align(h.agg_queries \o h.raw_queries, h.to_raise)
  IN IF Len(results) = Len(chunk_agg_qs) + Len(chunk_raw_qs)
     THEN Align(chunk_agg_qs \o chunk_raw_qs, {})
     ELSE Handled(_handle_missing_ts(results, chunk_agg_qs, chunk_raw_qs))

\* One round of `for future in as_completed(initial_futures_dct)`.
PhaseAStep ==
  /\ pc = "phaseA"
  /\ \E f \in tracked :
       /\ futs[f].state = "done"
       /\ LET Update(r) ==
                /\ missing_to_raise' = missing_to_raise \cup r.to_raise
                /\ ts_task_lookup' =
                     ts_task_lookup
                     \o SelectSeq(r.keys, LAMBDA q :
                                    \A j \in DOMAIN ts_task_lookup : ts_task_lookup[j] # q)
                /\ tasks' = [q \in QIdx |->
                               IF \E j \in DOMAIN r.keys : r.keys[j] = q
                               THEN r.ts_tasks[CHOOSE j \in DOMAIN r.keys : r.keys[j] = q]
                               ELSE tasks[q]]
          IN /\ tracked' = tracked \ {f}
             /\ Update(_create_ts_tasks_and_handle_missing(
                         ServerItems(futs[f].items), futs[f].chunk_agg_qs,
                         futs[f].chunk_raw_qs, initial_query_limits))
  /\ UNCHANGED poster_vars
  /\ UNCHANGED <<max_workers, all_queries, pc, mode, futs, subs,
                 agg_subtask_pool, raw_subtask_pool, next_items, next_subtasks,
                 initial_query_limits, n_splits, outcome>>

(* -------------------------- Chunking, Phase B ------------------------- *)
\* Heap order of the subtask pools: (priority, payload limit, tiebreak).
EntryBefore(a, b) ==
  \/ a.priority < b.priority
  \/ a.priority = b.priority /\ a.limit < b.limit
  \/ a.priority = b.priority /\ a.limit = b.limit /\ a.tie < b.tie

\* heapq.heappush on a pool kept as the sorted list of its entries.
HeapPush(pool, e) ==
  LET k == Cardinality({j \in DOMAIN pool : EntryBefore(pool[j], e)})
  IN SubSeq(pool, 1, k) \o <<e>> \o SubSeq(pool, k + 1, Len(pool))

\* monotonic_ns() + random(): later than every tiebreak handed out before.
RECURSIVE MaxTie(_, _, _)
MaxTie(pool, lo, hi) ==
  IF lo > hi THEN 0
  ELSE IF lo = hi THEN pool[lo].tie
  ELSE Max(MaxTie(pool, lo, (lo + hi) \div 2), MaxTie(pool, (lo + hi) \div 2 + 1, hi))

NextTie(agg, raw) == 1 + Max(MaxTie(agg, 1, Len(agg)), MaxTie(raw, 1, Len(raw)))

\* One round of `for task in new_subtasks` of _add_to_subtask_pools.
PoolPush(p, s, tks, sbs) ==
  LET Push(is_raw, e) ==
        IF is_raw THEN [p EXCEPT !.raw = HeapPush(p.raw, e)]
        ELSE [p EXCEPT !.agg = HeapPush(p.agg, e)]
  IN Push(all_queries[sbs[s].parent].is_raw_query,
          [priority |-> sbs[s].priority,
           limit |-> PayloadLimit(sbs[s].parent, tks[sbs[s].parent],
                                  sbs[s].max_query_limit),
           tie |-> NextTie(p.agg, p.raw), sub |-> s])

\* The rounds lo .. hi, in order (by halves).
RECURSIVE PoolPushRange(_, _, _, _, _, _)
PoolPushRange(p, new_subtasks, lo, hi, tks, sbs) ==
  IF lo > hi THEN p
  ELSE IF lo = hi THEN PoolPush(p, new_subtasks[lo], tks, sbs)
  ELSE CHOOSE r \in
         {PoolPushRange(first, new_subtasks, (lo + hi) \div 2 + 1, hi, tks, sbs) :
            first \in {PoolPushRange(p, new_subtasks, lo, (lo + hi) \div 2,
                                     tks, sbs)}} : TRUE

\* ChunkingDpsFetcher._add_to_subtask_pools.
_add_to_subtask_pools(agg, raw, new_subtasks, tks, sbs) ==
  PoolPushRange([agg |-> agg, raw |-> raw], new_subtasks, 1, Len(new_subtasks),
                tks, sbs)

\* limit_used of a partial payload carried over: the limits of its items of
\* one flavor.
LimitUsed(items, is_raw) ==
  SeqSum([j \in DOMAIN items |->
            IF items[j].is_raw_query = is_raw THEN items[j].limit ELSE 0])

\* One round of the inner `while task_pool` of _combine_subtasks_into_requests
\* (no change once the loop has ended). st holds the pool, the payload, its
\* subtasks, limit_used and the two ways the loop breaks.
FillStepNoItemCap(st, request_max_limit, tks, sbs) ==
  IF st.pool = <<>> \/ st.at_max \/ st.full THEN st
  ELSE LET Take(next_task, next_payload) ==
             IF next_payload = <<>> \/ sbs[next_task].is_done
             THEN [st EXCEPT !.pool = Tail(st.pool)]
             ELSE [st EXCEPT !.pool = Tail(st.pool),
                             !.items = Append(st.items, next_payload[1]),
                             !.sublst = Append(st.sublst, next_task),
                             !.limit_used = st.limit_used + next_payload[1].limit]
       IN Take(st.pool[1].sub, get_next_payload(st.pool[1].sub, tks, sbs))
FillStepKeepsDone(st, request_max_limit, tks, sbs) ==
  IF st.pool = <<>> \/ st.at_max \/ st.full THEN st
  ELSE IF Len(st.items) + 1 > FETCH_TS_LIMIT THEN [st EXCEPT !.at_max = TRUE]
  ELSE LET Take(next_task, next_payload) ==
             IF next_payload = <<>> \/ sbs[next_task].is_done
             THEN [st EXCEPT !.pool = Tail(st.pool),
                             !.items = Append(st.items,
                               [q |-> sbs[next_task].parent,
                                ident |-> all_queries[sbs[next_task].parent].ident,
                                is_raw_query |->
                                  all_queries[sbs[next_task].parent].is_raw_query,
                                start |-> sbs[next_task].start,
                                end |-> sbs[next_task].end, limit |-> 0]),
                             !.sublst = Append(st.sublst, next_task)]
             ELSE IF st.limit_used + next_payload[1].limit <= request_max_limit
             THEN [st EXCEPT !.pool = Tail(st.pool),
                             !.items = Append(st.items, next_payload[1]),
                             !.sublst = Append(st.sublst, next_task),
                             !.limit_used = st.limit_used + next_payload[1].limit]
             ELSE [st EXCEPT !.full = TRUE]
       IN Take(st.pool[1].sub, get_next_payload(st.pool[1].sub, tks, sbs))
FillStep(st, request_max_limit, tks, sbs) ==
  IF st.pool = <<>> \/ st.at_max \/ st.full THEN st
  ELSE IF Len(st.items) + 1 > FETCH_TS_LIMIT THEN [st EXCEPT !.at_max = TRUE]
  ELSE LET Take(next_task, next_payload) ==
             IF next_payload = <<>> \/ sbs[next_task].is_done
             THEN \* popped without being added
                  [st EXCEPT !.pool = Tail(st.pool)]
             ELSE IF st.limit_used + next_payload[1].limit <= request_max_limit
             THEN [st EXCEPT !.pool = Tail(st.pool),
                             !.items = Append(st.items, next_payload[1]),
                             !.sublst = Append(st.sublst, next_task),
                             !.limit_used = st.limit_used + next_payload[1].limit]
             ELSE [st EXCEPT !.full = TRUE]
       IN Take(st.pool[1].sub, get_next_payload(st.pool[1].sub, tks, sbs))

\* n rounds of the loop (by halves).
RECURSIVE FillRounds(_, _, _, _, _)
FillRounds(st, n, request_max_limit, tks, sbs) ==
  IF n <= 0 THEN st
  ELSE IF n = 1 THEN FillStep(st, request_max_limit, tks, sbs)
  ELSE CHOOSE r \in
         {FillRounds(first, n - n \div 2, request_max_limit, tks, sbs) :
            first \in {FillRounds(st, n \div 2, request_max_limit, tks, sbs)}} :
         TRUE

\* The inner `while task_pool`: every round pops a subtask or breaks, so the
\* loop ends within Len(pool) + 1 rounds.
FillPayload(pool, items, sublst, limit_used, request_max_limit, tks, sbs) ==
  FillRounds([pool |-> pool, items |-> items, sublst |-> sublst,
              limit_used |-> limit_used, at_max |-> FALSE, full |-> FALSE],
             Len(pool) + 1, request_max_limit, tks, sbs)

PrioritySum(sublst, sbs) == SeqSum([j \in DOMAIN sublst |-> sbs[sublst[j]].priority])

\* `yield payload, self.next_subtasks[:], priority` and the reset after it;
\* statistics.mean of no priorities raises.
Emit(st, sbs) ==
  IF st.sublst = <<>>
  THEN [st EXCEPT !.crashed = TRUE]
  ELSE [st EXCEPT
          !.out = Append(st.out, [items |-> st.items, subtask_lst |-> st.sublst,
                                  pnum |-> PrioritySum(st.sublst, sbs),
                                  pden |-> Len(st.sublst)]),
          !.items = <<>>, !.sublst = <<>>]

\* One pass of `for task_pool, request_max_limit, is_raw in zip(...)`.
PoolPass(pool, items, sublst, request_max_limit, is_raw, tks, sbs) ==
  IF pool = <<>>
  THEN [pool |-> pool, items |-> items, sublst |-> sublst, limit_used |-> 0,
        at_max |-> FALSE, full |-> FALSE]
  ELSE FillPayload(pool, items, sublst, LimitUsed(items, is_raw),
                   request_max_limit, tks, sbs)

\* One round of `while any(self.subtask_pools)` of
\* _combine_subtasks_into_requests: the pass over the aggregate pool, then,
\* unless that pass yielded a request, the pass over the raw pool.
CombineRound(st, return_partial_payload, tks, sbs) ==
  LET AfterAgg(a) ==
        LET AfterRaw(st_a, b) ==
              LET Done(st_b) ==
                    IF \/ b.at_max
                       \/ a.full /\ b.full
                       \/ a.full /\ st_b.raw = <<>>
                       \/ b.full /\ st_b.agg = <<>>
                       \/ return_partial_payload /\ st_b.agg = <<>> /\ st_b.raw = <<>>
                    THEN Emit(st_b, sbs)
                    ELSE st_b
              IN Done([st_a EXCEPT !.raw = b.pool, !.items = b.items,
                                   !.sublst = b.sublst])
            ThenRaw(st_a) ==
              IF /\ st.agg # <<>>
                 /\ \/ a.at_max
                    \/ a.full /\ st_a.raw = <<>>
                    \/ return_partial_payload /\ st_a.agg = <<>> /\ st_a.raw = <<>>
              THEN Emit(st_a, sbs)
              ELSE IF st_a.raw = <<>> THEN st_a
              ELSE AfterRaw(st_a, PoolPass(st_a.raw, st_a.items, st_a.sublst,
                                           DPS_LIMIT, TRUE, tks, sbs))
        IN ThenRaw([st EXCEPT !.agg = a.pool, !.items = a.items,
                              !.sublst = a.sublst])
  IN AfterAgg(PoolPass(st.agg, st.items, st.sublst, DPS_LIMIT_AGG, FALSE, tks, sbs))

\* ChunkingDpsFetcher._combine_subtasks_into_requests: st holds the two
\* pools, the partial payload and the requests yielded so far.
RECURSIVE _combine_subtasks_into_requests(_, _, _, _)
_combine_subtasks_into_requests(st, return_partial_payload, tks, sbs) ==
  IF st.crashed \/ (st.agg = <<>> /\ st.raw = <<>>) THEN st
  ELSE _combine_subtasks_into_requests(
         CombineRound(st, return_partial_payload, tks, sbs),
         return_partial_payload, tks, sbs)

CombineState(agg, raw, items, sublst) ==
  [agg |-> agg, raw |-> raw, items |-> items, sublst |-> sublst,
   out |-> <<>>, crashed |-> FALSE]

\* The gate of _queue_new_subtasks.
GateOpen(qs, workers) == ~(qs > 2 * workers)

AlwaysPartialPayload(qs, workers) == TRUE
return_partial_payload(qs, workers) == qs <= Min(5, CeilDiv(workers, 2))

\* ChunkingDpsFetcher._queue_new_subtasks: the pools, the partial payload and
\* the pool's submissions after one tick.
_queue_new_subtasks(fs, agg, raw, items, sublst, tks, sbs) ==
  IF ~GateOpen(qsize(fs), max_workers)
  THEN [futs |-> fs, st |-> CombineState(agg, raw, items, sublst)]
  ELSE LET Submit(st) ==
             [futs |-> fs \o [j \in DOMAIN st.out |->
                                [Future("batch", st.out[j].pnum, st.out[j].pden,
                                        st.out[j].subtask_lst, st.out[j].items,
                                        <<>>, <<>>)
                                   EXCEPT !.carried = IF j = 1 THEN Len(items) ELSE 0]],
              st |-> st]
       IN Submit(_combine_subtasks_into_requests(
                   CombineState(agg, raw, items, sublst),
                   return_partial_payload(qsize(fs), max_workers), tks, sbs))

\* ChunkingDpsFetcher._update_queries_with_new_chunking_limit: the unfinished
\* queries in lookup order, and the new per-request cap of each flavor.
UnfinishedOrNot(lookup, tks, sbs) == lookup
Unfinished(lookup, tks, sbs) ==
  SelectSeq(lookup, LAMBDA q : ~TaskIsDone(tks[q], sbs))

UnchunkedLimit(queries, is_raw) == RequestMaxLimit(is_raw)
NewChunkingLimit(queries, is_raw) ==
  LET tot == Len(SelectSeq(queries, LAMBDA q : all_queries[q].is_raw_query = is_raw))
      n_chunk == Min(FETCH_TS_LIMIT, CeilDiv(IF tot = 0 THEN 1 ELSE tot, 10))
  IN RequestMaxLimit(is_raw) \div n_chunk

\* split_into_subtasks of one task left, appended to the subtasks.
SplitTaskFromStart(st, q, n_left) ==
  LET Add(new) ==
        [tasks |-> [st.tasks EXCEPT
                      ![q].subtasks = {Len(st.subs) + j : j \in DOMAIN new}],
         subs |-> st.subs \o new]
  IN Add(split_into_subtasks(q, 0,
                             NSubtasks(q, max_workers, n_left),
                             st.tasks[q].max_query_limit))
SplitTask(st, q, n_left) ==
  LET Add(new) ==
        [tasks |-> [st.tasks EXCEPT
                      ![q].subtasks = {Len(st.subs) + j : j \in DOMAIN new}],
         subs |-> st.subs \o new]
  IN Add(split_into_subtasks(q, st.tasks[q].seed,
                             NSubtasks(q, max_workers, n_left),
                             st.tasks[q].max_query_limit))

\* ... of the tasks left[lo .. hi], in order (by halves).
RECURSIVE SplitTasksLeft(_, _, _, _)
SplitTasksLeft(st, left, lo, hi) ==
  IF lo > hi THEN st
  ELSE IF lo = hi THEN SplitTask(st, left[lo], Len(left))
  ELSE CHOOSE r \in
         {SplitTasksLeft(first, left, (lo + hi) \div 2 + 1, hi) :
            first \in {SplitTasksLeft(st, left, lo, (lo + hi) \div 2)}} : TRUE

\* fetch_all after the Phase A loop: raise what was collected, or set the new
\* caps, split the tasks left, fill the pools and queue the first requests.
PhaseAEnd ==
  /\ pc = "phaseA"
  /\ tracked = {}
  /\ IF missing_to_raise # {}
     THEN /\ pc' = "error"
          /\ outcome' = ApiError({all_queries[q].ident : q \in missing_to_raise})
          /\ UNCHANGED <<futs, tasks, subs, agg_subtask_pool, raw_subtask_pool,
                         next_items, next_subtasks>>
     ELSE LET Queued(sp, r) ==
                /\ tasks' = sp.tasks
                /\ subs' = sp.subs
                /\ futs' = r.futs
                /\ agg_subtask_pool' = r.st.agg
                /\ raw_subtask_pool' = r.st.raw
                /\ next_items' = r.st.items
                /\ next_subtasks' = r.st.sublst
                /\ IF r.st.crashed
                   THEN /\ pc' = "error"
                        /\ outcome' = [kind |-> "error", error |-> "StatisticsError",
                                       idents |-> {}]
                   ELSE /\ pc' = "phaseB"
                        /\ outcome' = outcome
              Pooled(sp, pools) ==
                Queued(sp, _queue_new_subtasks(futs, pools.agg, pools.raw,
                                               next_items, next_subtasks,
                                               sp.tasks, sp.subs))
              Split(sp) ==
                Pooled(sp, _add_to_subtask_pools(
                             agg_subtask_pool, raw_subtask_pool,
                             [j \in 1..(Len(sp.subs) - Len(subs)) |-> Len(subs) + j],
                             sp.tasks, sp.subs))
              Left(left) ==
                IF left = <<>>
                THEN /\ pc' = "done"
                     /\ outcome' = _finalize_tasks(ts_task_lookup, tasks, subs)
                     /\ UNCHANGED <<futs, tasks, subs, agg_subtask_pool,
                                    raw_subtask_pool, next_items, next_subtasks>>
                ELSE Split(SplitTasksLeft(
                             [tasks |-> [q \in QIdx |->
                                IF \E j \in DOMAIN left : left[j] = q
                                THEN [tasks[q] EXCEPT !.max_query_limit =
                                        NewChunkingLimit(left, all_queries[q].is_raw_query)]
                                ELSE tasks[q]],
                              subs |-> subs],
                             left, 1, Len(left)))
          IN Left(Unfinished(ts_task_lookup, tasks, subs))
  /\ tracked' = {f \in DOMAIN futs' : futs'[f].kind = "batch" /\ f \notin DOMAIN futs}
  /\ UNCHANGED poster_vars
  /\ UNCHANGED <<max_workers, all_queries, mode, ts_task_lookup,
                 missing_to_raise, initial_query_limits, n_splits>>

\* One round of `for subtask, res in zip(subtask_lst, res_lst)` of
\* _fetch_until_complete: store the page, push new and unfinished subtasks.
StoreOne(st, s, item, do_split) ==
  LET Requeued(r, p) ==
        [tasks |-> r.tasks, subs |-> r.subs, agg |-> p.agg, raw |-> p.raw]
      Pushed(r, p) ==
        Requeued(r, IF r.subs[s].is_done THEN p
                    ELSE _add_to_subtask_pools(p.agg, p.raw, <<s>>, r.tasks, r.subs))
      Stored(r) ==
        Pushed(r, _add_to_subtask_pools(st.agg, st.raw, r.new_subtasks,
                                        r.tasks, r.subs))
  IN Stored(store_partial_result(
              st.tasks, st.subs, s, item,
              ServerPageEnd(item.ident, item.start, item.end, item.limit),
              do_split))

\* The rounds lo .. hi, in order (by halves).
RECURSIVE StoreBatch(_, _, _, _, _, _)
StoreBatch(st, subtask_lst, items, split_sub, lo, hi) ==
  IF lo > hi THEN st
  ELSE IF lo = hi
  THEN StoreOne(st, subtask_lst[lo], items[lo], split_sub = subtask_lst[lo])
  ELSE CHOOSE r \in
         {StoreBatch(first, subtask_lst, items, split_sub, (lo + hi) \div 2 + 1, hi) :
            first \in {StoreBatch(st, subtask_lst, items, split_sub,
                                  lo, (lo + hi) \div 2)}} : TRUE

\* ChunkingDpsFetcher._cancel_subtasks: mark every subtask of the done tasks.
_cancel_subtasks(done_ts_tasks, tks, sbs) ==
  [s \in DOMAIN sbs |->
     IF sbs[s].parent \in done_ts_tasks THEN [sbs[s] EXCEPT !.is_done = TRUE]
     ELSE sbs[s]]

\* One round of the while loop of _fetch_until_complete.
PhaseBStep ==
  /\ pc = "phaseB"
  /\ \E f \in tracked :
       /\ futs[f].state = "done"
       /\ \E split_sub \in
              (IF n_splits < MaxSplits
               THEN {0} \cup {futs[f].subtask_lst[j] :
                                j \in {i \in DOMAIN futs[f].subtask_lst :
                                         ~has_limit(subs[futs[f].subtask_lst[i]].parent)}}
               ELSE {0}) :
            LET Queued(sb, sbs1, r) ==
                  /\ (split_sub # 0 => Len(sb.subs) > Len(subs))
                  /\ tasks' = sb.tasks
                  /\ subs' = sbs1
                  /\ n_splits' = n_splits + (Len(sb.subs) - Len(subs))
                  /\ futs' = r.futs
                  /\ tracked' = (tracked \ {f}) \cup (DOMAIN r.futs \ DOMAIN futs)
                  /\ agg_subtask_pool' = r.st.agg
                  /\ raw_subtask_pool' = r.st.raw
                  /\ next_items' = r.st.items
                  /\ next_subtasks' = r.st.sublst
                  /\ IF r.st.crashed
                     THEN /\ pc' = "error"
                          /\ outcome' = [kind |-> "error", error |-> "StatisticsError",
                                         idents |-> {}]
                     ELSE IF AllDone(ts_task_lookup, sb.tasks, sbs1)
                     THEN \* pool.shutdown(wait=False); return
                          /\ pc' = "done"
                          /\ outcome' = _finalize_tasks(ts_task_lookup, sb.tasks, sbs1)
                     ELSE UNCHANGED <<pc, outcome>>
                Cancelled(sb, sbs1) ==
                  Queued(sb, sbs1,
                         _queue_new_subtasks(futs, sb.agg, sb.raw, next_items,
                                             next_subtasks, sb.tasks, sbs1))
                Stored(sb) ==
                  Cancelled(sb, _cancel_subtasks(
                    {sb.subs[futs[f].subtask_lst[j]].parent :
                       j \in {i \in DOMAIN futs[f].subtask_lst :
                                TaskIsDone(sb.tasks[sb.subs[futs[f].subtask_lst[i]].parent],
                                           sb.subs)}},
                    sb.tasks, sb.subs))
            IN Stored(StoreBatch(
                        [tasks |-> tasks, subs |-> subs,
                         agg |-> agg_subtask_pool, raw |-> raw_subtask_pool],
                        futs[f].subtask_lst, futs[f].items, split_sub,
                        1, Min(Len(futs[f].subtask_lst), Len(futs[f].items))))
  /\ UNCHANGED poster_vars
  /\ UNCHANGED <<max_workers, all_queries, mode, ts_task_lookup,
                 missing_to_raise, initial_query_limits>>

\* `while futures_dct` of _fetch_until_complete ends; fetch_all returns.
PhaseBReturn ==
  /\ pc = "phaseB"
  /\ tracked = {}
  /\ pc' = "done"
  /\ outcome' = _finalize_tasks(ts_task_lookup, tasks, subs)
  /\ UNCHANGED poster_vars
  /\ UNCHANGED <<max_workers, all_queries, mode, futs, tracked, ts_task_lookup,
                 tasks, subs, agg_subtask_pool, raw_subtask_pool, next_items,
                 next_subtasks, missing_to_raise, initial_query_limits, n_splits>>

(* ----------------------- fetches of many series ----------------------- *)
\* A raw query whose limit outlasts its share of a Phase A request, one that
\* takes several Phase B pages, and an aggregate query of several pages.
ManySmall == Query(1, TRUE, 2000, FALSE)
ManyBig == Query(1, TRUE, 8000, FALSE)
ManyAgg == Query(3, FALSE, 25000, FALSE)

ManyQueries(n_agg, n_small, n_big) ==
  [i \in 1..(n_agg + n_small + n_big) |->
     IF i <= n_agg THEN ManyAgg
     ELSE IF i <= n_agg + n_small THEN ManySmall
     ELSE ManyBig]

InitMany ==
  /\ max_workers \in 1..MaxWorkers
  /\ \E n_agg \in 0..1, n_big \in 0..1, h \in 1..MaxHundreds, e \in 0..MaxExtra :
       all_queries = ManyQueries(n_agg, h * FETCH_TS_LIMIT - e, n_big)
  /\ IdleState

NextMany ==
  \/ Select
  \/ ChunkCreateInitialTasks
  \/ WorkerStart
  \/ WorkerFinish
  \/ PhaseAStep
  \/ PhaseAEnd
  \/ PhaseBStep
  \/ PhaseBReturn
  \/ PoolExit

SpecMany == InitMany /\ [][NextMany]_vars

(* ------------------- limited tasks split in two ----------------------- *)
\* split_into_subtasks may cover a limited task's range with several
\* subtasks (those with later time ranges are marked done once the limit is
\* reached); NSubtasks above never does. The states below are Phase B states
\* of three such tasks, drawn directly: aggregate queries with a limit on a
\* series dense over the whole range, each task split in two after a Phase A
\* batch of DPS_LIMIT_AGG \div 3. The later subtask has fetched one full page
\* and waits in the heap (it was pushed back while the gate was closed); the
\* request of the earlier subtask is queued, running or has come back.
DenseLimited(limit) == Query(6, FALSE, limit, FALSE)

LimitedSeed == DPS_LIMIT_AGG \div 3

LimitedSubs ==
  [i \in 1..6 |->
     LET pair == split_into_subtasks((i + 1) \div 2, LimitedSeed, 2, DPS_LIMIT_AGG)
     IN IF i % 2 = 1 THEN pair[1]
        ELSE [pair[2] EXCEPT !.start = @ + DPS_LIMIT_AGG]]

LimitedTask(q) ==
  [NewTask(q, LimitedSeed, FALSE) EXCEPT
     !.n_dps_fetched = LimitedSeed + DPS_LIMIT_AGG,
     !.subtasks = {2 * q - 1, 2 * q}]

InitLimited ==
  /\ NoPoster
  /\ max_workers \in 1..MaxWorkers
  /\ all_queries \in [1..3 -> {DenseLimited(23333), DenseLimited(30000)}]
  /\ pc = "phaseB"
  /\ mode = "chunking"
  /\ ts_task_lookup = <<1, 2, 3>>
  /\ tasks = [q \in QIdx |-> LimitedTask(q)]
  /\ subs = LimitedSubs
  /\ \E states \in [1..3 -> {"pending", "running", "done"}] :
       /\ Cardinality({q \in 1..3 : states[q] = "running"}) <= max_workers
       /\ futs = [q \in 1..3 |->
                    [Future("batch", 1, 1, <<2 * q - 1>>,
                            get_next_payload(2 * q - 1, tasks, subs), <<>>, <<>>)
                       EXCEPT !.state = states[q]]]
  /\ tracked = {1, 2, 3}
  /\ LET Pools(p) == /\ agg_subtask_pool = p.agg
                     /\ raw_subtask_pool = p.raw
     IN Pools(_add_to_subtask_pools(<<>>, <<>>, <<2, 4, 6>>, tasks, subs))
  /\ next_items = <<>>
  /\ next_subtasks = <<>>
  /\ missing_to_raise = {}
  /\ initial_query_limits = [q \in QIdx |-> LimitedSeed]
  /\ n_splits = 0
  /\ outcome = NoOutcome

NextLimited ==
  \/ WorkerStart
  \/ WorkerFinish
  \/ PhaseBStep
  \/ PoolExit

SpecLimited == InitLimited /\ [][NextLimited]_vars

(* ------------- Eager, limited tasks in several subtasks --------------- *)
\* The Eager fetcher right after _create_initial_tasks when
\* split_into_subtasks gives a task with a limit as many subtasks as one
\* without: two queries, twice MaxWorkers workers. A query may have limit 0.
SplitQueryChoices ==
  { Query(1, TRUE, NoLimit, FALSE),   \* raw, no limit
    Query(1, TRUE, 110000, FALSE),    \* raw, limit above one page
    Query(2, TRUE, 5000, TRUE),       \* raw, limit inside the first page
    Query(2, TRUE, 0, FALSE) }        \* nothing to fetch

SplitCount == Max(1, max_workers \div Len(all_queries))

SplitSubs ==
  [i \in 1..(Len(all_queries) * SplitCount) |->
     LET q == ((i - 1) \div SplitCount) + 1
     IN split_into_subtasks(
          q, 0, SplitCount,
          RequestMaxLimit(all_queries[q].is_raw_query))[((i - 1) % SplitCount) + 1]]

SplitTasks ==
  [q \in QIdx |->
     [NewTask(q, 0, FALSE) EXCEPT
        !.subtasks = ((q - 1) * SplitCount + 1)..(q * SplitCount)]]

InitEagerSplit ==
  /\ NoPoster
  /\ max_workers = 2 * MaxWorkers
  /\ all_queries \in [1..2 -> SplitQueryChoices]
  /\ pc = "eager"
  /\ mode = "eager"
  /\ subs = SplitSubs
  /\ tasks = SplitTasks
  /\ futs = [i \in DOMAIN subs |->
               Future("jit", subs[i].priority, 1, <<i>>, <<>>, <<>>, <<>>)]
  /\ tracked = DOMAIN futs
  /\ ts_task_lookup = [i \in QIdx |-> i]
  /\ agg_subtask_pool = <<>>
  /\ raw_subtask_pool = <<>>
  /\ next_items = <<>>
  /\ next_subtasks = <<>>
  /\ missing_to_raise = {}
  /\ initial_query_limits = [q \in QIdx |-> 0]
  /\ n_splits = 0
  /\ outcome = NoOutcome

NextEagerSplit ==
  \/ WorkerStart
  \/ WorkerFinish
  \/ EagerStep
  \/ EagerReturn
  \/ PoolExit

SpecEagerSplit == InitEagerSplit /\ [][NextEagerSplit]_vars

(* ------------- Chunking with more workers than a flavor --------------- *)
\* Fetches of one query more than there are workers, aggregate and raw
\* queries mixed, with one worker more than the other fetches have.
MixedQueryChoices ==
  { Query(2, FALSE, NoLimit, FALSE),  \* aggregates, two pages
    Query(2, TRUE, 5000, TRUE) }      \* raw, limit inside the first page

InitMixed ==
  /\ max_workers = MaxWorkers + 1
  /\ all_queries \in [1..(max_workers + 1) -> MixedQueryChoices]
  /\ IdleState

SpecMixed == InitMixed /\ [][NextMany]_vars

(* ------------------ _find_initial_query_limits alone ------------------ *)
\* The queries of one flavor of a Phase A chunk, with limits around the
\* shares the function hands out (a third, a half, all of the request's
\* limit), and the call _create_initial_tasks makes for them.
ChunkLimitChoices(is_raw) ==
  {0, 1, RequestMaxLimit(is_raw) \div 3, RequestMaxLimit(is_raw) \div 3 + 1,
   RequestMaxLimit(is_raw) \div 2, NoLimit}

ChunkLists(is_raw) ==
  UNION {[1..k -> {Query(1, is_raw, limit, FALSE) :
                     limit \in ChunkLimitChoices(is_raw)}] : k \in 1..MaxQueries}

InitChunk ==
  /\ max_workers = 1
  /\ \E is_raw \in BOOLEAN : all_queries \in ChunkLists(is_raw)
  /\ IdleState

ChunkCappedLimits == [j \in QIdx |-> capped_limit(all_queries[j])]

FindChunkLimits ==
  /\ pc = "init"
  /\ initial_query_limits' =
       _find_initial_query_limits(ChunkCappedLimits,
                                  RequestMaxLimit(all_queries[1].is_raw_query))
  /\ pc' = "limits"
  /\ UNCHANGED poster_vars
  /\ UNCHANGED <<max_workers, all_queries, mode, futs, tracked, ts_task_lookup,
                 tasks, subs, agg_subtask_pool, raw_subtask_pool, next_items,
                 next_subtasks, missing_to_raise, n_splits, outcome>>

SpecChunkLimits == InitChunk /\ [][FindChunkLimits]_vars

(* -------------------- Eager fetches of limited series ------------------ *)
\* Raw queries with a limit: one and a half requests' worth of a series
\* that has more (150 000 of 200 000 datapoints, a request returning at most
\* DPS_LIMIT = 100 000), a limit inside the second request, one inside the
\* first, and the limit 0.
LimitedQueryChoices ==
  { Query(6, TRUE, 150000, FALSE),
    Query(1, TRUE, 110000, FALSE),
    Query(2, TRUE, 5000, FALSE),
    Query(2, TRUE, 0, FALSE) }

InitEagerLimited ==
  /\ max_workers \in 1..MaxWorkers
  /\ \E k \in 1..max_workers : all_queries \in [1..k -> LimitedQueryChoices]
  /\ IdleState

SpecEagerLimited == InitEagerLimited /\ [][NextEager]_vars

(* --------------------- inserting: DatapointsPoster -------------------- *)
\* DatapointsBin(dps_objects_limit, dps_limit); an object is kept as the
\* number of its datapoints.
DatapointsBin(dps_objects_limit, dps_limit) ==
  [dps_objects_limit |-> dps_objects_limit, dps_limit |-> dps_limit,
   current_num_datapoints |-> 0, dps_object_list |-> <<>>]

add(bin, n_datapoints) ==
  [bin EXCEPT !.current_num_datapoints = @ + n_datapoints,
              !.dps_object_list = Append(@, n_datapoints)]

AlwaysFits(bin, number_of_dps) == TRUE
will_fit(bin, number_of_dps) ==
  /\ bin.current_num_datapoints + number_of_dps <= bin.dps_limit
  /\ Len(bin.dps_object_list) + 1 <= bin.dps_objects_limit

\* One round of the loop over range(0, len(datapoints), DPS_LIMIT) of
\* _bin_datapoints: the chunk goes into the first bin it fits, else into a
\* new bin, made as DatapointsBin(DPS_LIMIT, POST_DPS_OBJECTS_LIMIT).
BinChunk ==
  /\ pc = "binning"
  /\ dps_object_list # <<>>
  /\ LET Place(n_chunk, fitting) ==
           bins' = IF fitting # {}
                   THEN [bins EXCEPT
                           ![CHOOSE b \in fitting : \A c \in fitting : b <= c] =
                             add(@, n_chunk)]
                   ELSE Append(bins,
                               add(DatapointsBin(DPS_LIMIT, POST_DPS_OBJECTS_LIMIT),
                                   n_chunk))
         Chunk(n_chunk) ==
           Place(n_chunk, {b \in DOMAIN bins : will_fit(bins[b], n_chunk)})
     IN Chunk(Min(DPS_LIMIT, dps_object_list[1] - dps_offset))
  /\ IF dps_offset + DPS_LIMIT < dps_object_list[1]
     THEN /\ dps_offset' = dps_offset + DPS_LIMIT
          /\ dps_object_list' = dps_object_list
     ELSE /\ dps_offset' = 0
          /\ dps_object_list' = Tail(dps_object_list)
  /\ UNCHANGED <<max_workers, all_queries, pc, mode, futs, tracked,
                 ts_task_lookup, tasks, subs, agg_subtask_pool,
                 raw_subtask_pool, next_items, next_subtasks, missing_to_raise,
                 initial_query_limits, n_splits, outcome>>

\* _bin_datapoints returns the object lists of the bins, one per request.
BinReturn ==
  /\ pc = "binning"
  /\ dps_object_list = <<>>
  /\ pc' = "binned"
  /\ outcome' = [kind |-> "binned",
                 groups |-> [b \in DOMAIN bins |-> bins[b].dps_object_list]]
  /\ UNCHANGED poster_vars
  /\ UNCHANGED <<max_workers, all_queries, mode, futs, tracked,
                 ts_task_lookup, tasks, subs, agg_subtask_pool,
                 raw_subtask_pool, next_items, next_subtasks, missing_to_raise,
                 initial_query_limits, n_splits>>

\* What an insert hands over: up to MaxObjects validated objects (at least
\* one datapoint each) of a few sizes, possibly after a long run of objects
\* of one datapoint, which the loop has put into the first bin already.
DpsCounts == {1, 2, 4000, 6000, DPS_LIMIT, DPS_LIMIT + DPS_LIMIT \div 2}

BinAfterOnes(n_objects) ==
  [DatapointsBin(DPS_LIMIT, POST_DPS_OBJECTS_LIMIT) EXCEPT
     !.current_num_datapoints = n_objects,
     !.dps_object_list = [k \in 1..n_objects |-> 1]]

InitPoster ==
  /\ max_workers = 1
  /\ all_queries = <<>>
  /\ pc = "binning"
  /\ mode = "none"
  /\ futs = <<>>
  /\ tracked = {}
  /\ ts_task_lookup = <<>>
  /\ tasks = <<>>
  /\ subs = <<>>
  /\ agg_subtask_pool = <<>>
  /\ raw_subtask_pool = <<>>
  /\ next_items = <<>>
  /\ next_subtasks = <<>>
  /\ missing_to_raise = {}
  /\ initial_query_limits = <<>>
  /\ n_splits = 0
  /\ outcome = NoOutcome
  /\ bins \in {<<>>, <<BinAfterOnes(POST_DPS_OBJECTS_LIMIT - 2)>>}
  /\ \E k \in 1..MaxObjects : dps_object_list \in [1..k -> DpsCounts]
  /\ dps_offset = 0

NextPoster == BinChunk \/ BinReturn

SpecPoster == InitPoster /\ [][NextPoster]_vars

(* --------------------------- specifications --------------------------- *)
Next ==
  \/ Select
  \/ EagerCreateInitialTasks
  \/ ChunkCreateInitialTasks
  \/ WorkerStart
  \/ WorkerFinish
  \/ EagerStep
  \/ EagerReturn
  \/ PhaseAStep
  \/ PhaseAEnd
  \/ PhaseBStep
  \/ PhaseBReturn
  \/ PoolExit

Spec == Init /\ [][Next]_vars

\* The Eager fetcher under the scheduling the thread pool gives: a step that
\* can be taken is taken.
SpecEagerFair == InitEager /\ [][NextEager]_vars /\ WF_vars(NextEager)

(* ------------------------ requests that fail ------------------------- *)
Failed(fs) == {f \in DOMAIN fs : fs[f].state = "failed"}

\* The request of a running submission fails with an HTTP error that does
\* not report missing series (say a 500): the future holds the exception.
WorkerFail ==
  /\ PoolIsUp
  /\ Cardinality(Failed(futs)) < MaxFailures
  /\ \E f \in Running(futs) : futs' = [futs EXCEPT ![f].state = "failed"]
  /\ UNCHANGED poster_vars
  /\ UNCHANGED <<max_workers, all_queries, pc, mode, tracked, ts_task_lookup,
                 tasks, subs, agg_subtask_pool, raw_subtask_pool, next_items,
                 next_subtasks, missing_to_raise, initial_query_limits,
                 n_splits, outcome>>

FatalError(f) == [kind |-> "error", error |-> "api_error", idents |-> {}, request |-> f]

\* future.result() raises in a scheduler loop and nothing catches it: Eager
\* re-raises what is not a tolerated missing-series 400 (line 215-216); in
\* Chunking only the 400 with `missing` is handled in Phase A, and Phase B
\* reads future.result() bare (line 285). The failed request is dropped.
SwallowFatal ==
  /\ pc \in {"eager", "phaseA", "phaseB"}
  /\ \E f \in tracked :
       /\ futs[f].state = "failed"
       /\ tracked' = tracked \ {f}
  /\ UNCHANGED poster_vars
  /\ UNCHANGED <<max_workers, all_queries, pc, mode, futs, ts_task_lookup, tasks,
                 subs, agg_subtask_pool, raw_subtask_pool, next_items,
                 next_subtasks, missing_to_raise, initial_query_limits,
                 n_splits, outcome>>
RaiseFatal ==
  /\ pc \in {"eager", "phaseA", "phaseB"}
  /\ \E f \in tracked :
       /\ futs[f].state = "failed"
       /\ tracked' = tracked \ {f}
       /\ outcome' = FatalError(f)
  /\ pc' = "error"
  /\ UNCHANGED poster_vars
  /\ UNCHANGED <<max_workers, all_queries, mode, futs, ts_task_lookup, tasks,
                 subs, agg_subtask_pool, raw_subtask_pool, next_items,
                 next_subtasks, missing_to_raise, initial_query_limits,
                 n_splits>>

NextFaulty ==
  \/ Next
  \/ WorkerFail
  \/ RaiseFatal

SpecFaulty == Init /\ [][NextFaulty]_vars

(* ------------------------------- claims ------------------------------- *)
IsMissing(q) == Series(all_queries[q].ident) = Missing
ReturnedQueries == [k \in DOMAIN outcome.series |-> outcome.series[k].q]

\* C1: a series queried with a finite limit L never holds, and is never
\* returned with, more than L datapoints, in either mode and whatever the
\* order in which the requests complete (in Chunking mode the first batch of
\* Phase A counts).
C1_LimitRespected ==
  /\ \A q \in QIdx :
       (tasks[q].created /\ has_limit(q))
         => ChunksWidth(get_result(tasks[q], subs)) <= all_queries[q].limit
  /\ outcome.kind = "result"
       => \A k \in DOMAIN outcome.series :
            has_limit(outcome.series[k].q)
              => ChunksWidth(outcome.series[k].dps)
                   <= all_queries[outcome.series[k].q].limit

\* A Chunking fetch returned a series with exactly its limit, part of it from
\* the first batch and the rest from Phase B.
C1_Witness ==
  /\ mode = "chunking"
  /\ outcome.kind = "result"
  /\ \E k \in DOMAIN outcome.series :
       /\ has_limit(outcome.series[k].q)
       /\ ChunksWidth(outcome.series[k].dps) = all_queries[outcome.series[k].q].limit
       /\ tasks[outcome.series[k].q].seed > 0
       /\ tasks[outcome.series[k].q].seed < all_queries[outcome.series[k].q].limit

\* C2: the returned series are those of all_queries in its order, duplicates
\* kept, with only the missing series left out, whatever the completion order
\* and in both modes.
C2_OutputOrder ==
  outcome.kind = "result"
    => ReturnedQueries = SelectSeq([i \in QIdx |-> i], LAMBDA i : ~IsMissing(i))

\* A fetch returned two or more series, one of them a duplicate identifier,
\* with a missing series left out from before the last of them.
C2_Witness ==
  /\ outcome.kind = "result"
  /\ Len(outcome.series) >= 2
  /\ \E i, j \in QIdx : i < j /\ IsMissing(i) /\ ~IsMissing(j)
  /\ \E i, j \in QIdx : i # j /\ ~IsMissing(i)
                        /\ all_queries[i].ident = all_queries[j].ident

\* C3: when every missing series is queried with ignore_unknown_ids=true, the
\* fetch raises no error, and what it returns is a result for every series
\* that is not missing and for no series that is.
C3_MissingTolerated ==
  (/\ max_workers >= 1
   /\ ~ValidationFails(all_queries)
   /\ \A q \in QIdx : IsMissing(q) => all_queries[q].ignore_unknown_ids)
    => /\ outcome.kind # "error"
       /\ outcome.kind = "result"
            => {outcome.series[k].q : k \in DOMAIN outcome.series}
                 = {q \in QIdx : ~IsMissing(q)}

\* The Eager fetcher returned the series present after it met a tolerated
\* missing one.
C3_Witness ==
  /\ mode = "eager"
  /\ outcome.kind = "result"
  /\ outcome.series # <<>>
  /\ \E q \in QIdx : IsMissing(q) /\ all_queries[q].ignore_unknown_ids

\* C4: in Chunking mode "not found" is raised only once every Phase A request
\* has completed and been handled, before any Phase B request, and it names
\* exactly the missing identifiers queried with ignore_unknown_ids=false; and
\* with such a query the fetch never gets past Phase A.
C4_NotFoundAfterPhaseA ==
  /\ (mode = "chunking" /\ outcome.kind = "error" /\ outcome.error = "not_found")
       => /\ pc \in {"error", "returned"}
          /\ tracked = {}
          /\ \A f \in DOMAIN futs : futs[f].kind = "initial" /\ futs[f].state = "done"
          /\ outcome.idents =
               {all_queries[q].ident :
                  q \in {i \in QIdx : IsMissing(i) /\ ~all_queries[i].ignore_unknown_ids}}
  /\ (mode = "chunking"
        /\ \E q \in QIdx : IsMissing(q) /\ ~all_queries[q].ignore_unknown_ids)
       => pc \notin {"phaseB", "done"} /\ outcome.kind # "result"

\* "not found" was raised after two Phase A requests, with a tolerated missing
\* series and a present one among the queries.
C4_Witness ==
  /\ mode = "chunking"
  /\ outcome.kind = "error"
  /\ outcome.error = "not_found"
  /\ Len(futs) >= 2
  /\ \E q \in QIdx : IsMissing(q) /\ all_queries[q].ignore_unknown_ids
  /\ \E q \in QIdx : ~IsMissing(q)

\* C5: Eager, two queries, max_workers = 2, A missing with
\* ignore_unknown_ids=false and B present: no result is ever returned, the
\* fetch ends with an error, and the error is "not found" naming A.
C5_Scenario ==
  /\ max_workers = 2
  /\ Len(all_queries) = 2
  /\ \E a, b \in QIdx :
       /\ IsMissing(a) /\ ~all_queries[a].ignore_unknown_ids
       /\ ~IsMissing(b) /\ ValidQuery(all_queries[b])

C5_EagerNotFound ==
  /\ [](C5_Scenario
          => /\ outcome.kind # "result"
             /\ outcome.kind = "error"
                  => /\ outcome.error = "not_found"
                     /\ outcome.idents =
                          {all_queries[a].ident : a \in {q \in QIdx : IsMissing(q)}})
  /\ (C5_Scenario ~> outcome.kind = "error")

\* The error was raised after B's task had finished.
C5_Witness ==
  /\ C5_Scenario
  /\ outcome.kind = "error"
  /\ \E b \in QIdx : ~IsMissing(b) /\ TaskIsDone(tasks[b], subs)

\* C6: the selector picks the Eager fetcher exactly when the number of
\* single-series queries is at most max_workers, else the Chunking fetcher.
C6_SelectorThreshold ==
  mode # "none"
    => /\ mode \in {"eager", "chunking"}
       /\ (mode = "eager") <=> (Len(all_queries) <= max_workers)

\* Eager was picked for as many queries as there are workers.
C6_Witness == mode = "eager" /\ Len(all_queries) = max_workers

\* C7: every Phase A request carries at most FETCH_TS_LIMIT items, its raw
\* limits summing to at most DPS_LIMIT and its aggregate limits to at most
\* DPS_LIMIT_AGG, whatever the number and mix of queries and max_workers >= 1.
C7_InitialRequestCaps ==
  \A f \in DOMAIN futs :
    futs[f].kind = "initial"
      => /\ Len(futs[f].items) <= FETCH_TS_LIMIT
         /\ LimitUsed(futs[f].items, TRUE) <= DPS_LIMIT
         /\ LimitUsed(futs[f].items, FALSE) <= DPS_LIMIT_AGG

\* C7, the part about the limits alone.
C7_InitialLimitSums ==
  \A f \in DOMAIN futs :
    futs[f].kind = "initial"
      => /\ LimitUsed(futs[f].items, TRUE) <= DPS_LIMIT
         /\ LimitUsed(futs[f].items, FALSE) <= DPS_LIMIT_AGG

\* C8: every combined request of Phase B, one that continues a partial payload
\* of an earlier tick included, has at most FETCH_TS_LIMIT items, its raw
\* limits summing to at most DPS_LIMIT and its aggregate limits to at most
\* DPS_LIMIT_AGG.
C8_BatchCaps ==
  \A f \in DOMAIN futs :
    futs[f].kind = "batch"
      => /\ Len(futs[f].items) <= FETCH_TS_LIMIT
         /\ LimitUsed(futs[f].items, TRUE) <= DPS_LIMIT
         /\ LimitUsed(futs[f].items, FALSE) <= DPS_LIMIT_AGG

\* A combined request went out that continues a partial payload buffered on
\* an earlier tick with items of this one, and one went out with exactly
\* FETCH_TS_LIMIT items.
C8_Witness ==
  /\ \E f \in DOMAIN futs :
       /\ futs[f].kind = "batch"
       /\ futs[f].carried > 0
       /\ Len(futs[f].items) > futs[f].carried
  /\ \E f \in DOMAIN futs :
       futs[f].kind = "batch" /\ Len(futs[f].items) = FETCH_TS_LIMIT

\* C9: in Phase B the submissions no worker has started never number more
\* than 2 * max_workers + 1, however many subtasks wait in the pools.
C9_PendingBounded ==
  pc = "phaseB" => qsize(futs) <= 2 * max_workers + 1

\* The datapoints a query asks for: the first min(limit, D) of its series.
RequestedDatapoints(q) ==
  LET Upto(n) == IF n = 0 THEN <<>> ELSE <<<<0, n>>>>
  IN Upto(IF has_limit(q)
          THEN Min(all_queries[q].limit, Series(all_queries[q].ident))
          ELSE Min(RangeEnd, Series(all_queries[q].ident)))

\* C10: for the same queries and server data both fetchers return the same
\* payload per series in the same order: what the Eager fetcher returns for a
\* query, the datapoints it asks for, is what any fetch returns for it.
C10_StrategyEquivalence ==
  outcome.kind = "result"
    => /\ ReturnedQueries = SelectSeq([i \in QIdx |-> i], LAMBDA i : ~IsMissing(i))
       /\ \A k \in DOMAIN outcome.series :
            outcome.series[k].dps = RequestedDatapoints(outcome.series[k].q)

\* C10, the Eager side: the Eager fetcher returns the datapoints asked for.
C10_EagerPayloads ==
  (mode = "eager" /\ outcome.kind = "result")
    => \A k \in DOMAIN outcome.series :
         outcome.series[k].dps = RequestedDatapoints(outcome.series[k].q)

\* C11: the datapoints returned for a series have strictly increasing
\* timestamps and no timestamp twice, whatever the order in which the pages
\* arrived and however the task was split or re-queued: the runs of
\* timestamps a task holds, ordered by start, never touch or overlap.
StrictlyIncreasing(cs) ==
  \A i \in DOMAIN cs :
    /\ cs[i][1] < cs[i][2]
    /\ i < Len(cs) => cs[i][2] < cs[i + 1][1]
C11_StrictlyIncreasing ==
  /\ \A q \in QIdx :
       tasks[q] # NoTask => StrictlyIncreasing(get_result(tasks[q], subs))
  /\ outcome.kind = "result" =>
       \A k \in DOMAIN outcome.series : StrictlyIncreasing(outcome.series[k].dps)
\* A returned series put together from the first batch and two pages of one
\* subtask, re-queued in between.
C11_Witness ==
  /\ outcome.kind = "result"
  /\ \E k \in DOMAIN outcome.series :
       LET t == tasks[outcome.series[k].q]
       IN /\ t.seed > 0
          /\ \E s \in t.subtasks :
               subs[s].start - subs[s].orig_start > t.max_query_limit
          /\ outcome.series[k].dps =
                 <<<<0, Series(all_queries[outcome.series[k].q].ident)>>>>

\* C12: every validation error, and the error for max_workers < 1, is raised
\* by dps_fetch_selector: no fetcher has been chosen, no pool created and no
\* request submitted when the caller gets it, and an input that fails these
\* checks never gets past the selector.
C12_ErrorsBeforePool ==
  /\ (max_workers < 1 \/ ValidationFails(all_queries)) =>
       /\ pc \in {"init", "error"}
       /\ mode = "none"
       /\ futs = <<>>
       /\ tracked = {}
       /\ pc = "error" =>
            outcome = SelectError(IF max_workers < 1 THEN "RuntimeError"
                                  ELSE "ValueError")
  /\ (outcome.kind = "error" /\ outcome.error \in {"RuntimeError", "ValueError"}) =>
       /\ max_workers < 1 \/ ValidationFails(all_queries)
       /\ mode = "none"
       /\ futs = <<>>
\* A validation error raised with a usable worker count, a valid query next
\* to the rejected one.
C12_Witness ==
  /\ pc = "error"
  /\ outcome = SelectError("ValueError")
  /\ max_workers >= 1
  /\ \E i \in QIdx : ValidQuery(all_queries[i])
  /\ futs = <<>>

\* C14: on every exit path of fetch_all_datapoints the pool is shut down
\* without waiting: once fetch_all has returned or raised, the caller gets the
\* result or the error without being held until requests still in flight
\* have finished, so leaving the pool's scope is possible at once.
C14_ExitWithoutWaiting ==
  (pc \in {"done", "error"} /\ mode # "none") => ENABLED PoolExit

\* C13: when a request fails with an HTTP error other than a tolerated
\* missing-series report, the invocation raises the first such error its
\* scheduler loop observes, in both modes and both Chunking phases: a loop
\* that takes up a failed request raises its error (a request a finished
\* task no longer waits for is not taken up); it returns no result for any
\* series, and it never submits the failed request's work again.
LoopRunning == pc \in {"eager", "phaseA", "phaseB"}
Abandoned(f, tks, sbs) ==
  /\ futs[f].kind = "jit"
  /\ TaskIsDone(tks[sbs[futs[f].subtask_lst[1]].parent], sbs)
C13_FatalErrorRaised ==
  /\ [][\A f \in tracked :
          (LoopRunning /\ futs[f].state = "failed" /\ f \notin tracked')
            => \/ pc' = "error" /\ outcome' = FatalError(f)
               \/ Abandoned(f, tasks', subs')]_vars
  /\ [](outcome.kind = "result" =>
          \A f \in Failed(futs) : f \in tracked \/ Abandoned(f, tasks, subs))
  /\ []((outcome.kind = "error" /\ outcome.error = "api_error") =>
          /\ pc \in {"error", "returned"}
          /\ futs[outcome.request].state = "failed")
  /\ [](\A f \in Failed(futs) : \A g \in DOMAIN futs :
          g > f => \A i \in DOMAIN futs[f].subtask_lst :
                     \A j \in DOMAIN futs[g].subtask_lst :
                       futs[f].subtask_lst[i] # futs[g].subtask_lst[j])
\* The error of a failed Phase B request was raised after other requests of
\* the phase had been handled.
C13_Witness ==
  /\ outcome.kind = "error"
  /\ outcome.error = "api_error"
  /\ futs[outcome.request].kind = "batch"
  /\ \E g \in DOMAIN futs : futs[g].kind = "batch" /\ futs[g].state = "done"
                            /\ g \notin tracked

\* C15: cancellation never shows to the caller: no invocation ends with a
\* cancellation error, the scheduler loop is never handed a cancelled future
\* (the futures it cancels it stops tracking), and a cancelled future never
\* runs or completes, so nothing of it is processed as a result.
C15_CancellationInvisible ==
  /\ [](\A f \in tracked : futs[f].state # "cancelled")
  /\ [](outcome.kind = "error" =>
          outcome.error \in {"RuntimeError", "ValueError", "not_found",
                             "StatisticsError"})
  /\ [][\A f \in DOMAIN futs :
          futs[f].state = "cancelled" => futs'[f] = futs[f] /\ f \notin tracked']_vars
\* The Eager fetcher returned after it had cancelled a queued request of a
\* task that finished as missing and tolerated.
C15_Witness ==
  /\ mode = "eager"
  /\ outcome.kind = "result"
  /\ \E f \in DOMAIN futs :
       /\ futs[f].state = "cancelled"
       /\ f \notin tracked
       /\ TaskIsDone(tasks[subs[futs[f].subtask_lst[1]].parent], subs)

\* C16: with every request completing and the data finite, fetch_all returns
\* in both modes with every task of the lookup done: whenever a fetch has
\* returned its result, no task of the lookup is unfinished.
C16_ReturnsAllDone ==
  outcome.kind = "result" => AllDone(ts_task_lookup, tasks, subs)

\* C17: max_workers = 2, two queries, A missing with ignore_unknown_ids=true
\* and B valid on a present series. As claimed: no error is raised and the
\* output has length 2, A's slot empty and B fully populated.
C17_Scenario ==
  /\ max_workers = 2
  /\ Len(all_queries) = 2
  /\ \E a, b \in QIdx :
       /\ IsMissing(a) /\ all_queries[a].ignore_unknown_ids
       /\ ~IsMissing(b) /\ ValidQuery(all_queries[b])
FullyPopulated(entry) ==
  LET query == all_queries[entry.q]
  IN entry.dps = <<<<0, IF has_limit(entry.q)
                         THEN Min(query.limit, Series(query.ident))
                         ELSE Series(query.ident)>>>>
C17_LengthTwo ==
  C17_Scenario =>
    /\ outcome.kind # "error"
    /\ outcome.kind = "result" =>
         /\ Len(outcome.series) = 2
         /\ \E k \in 1..2 : ~IsMissing(outcome.series[k].q)
                            /\ FullyPopulated(outcome.series[k])
\* C17, amended: in that scenario no error is raised and the output has
\* length 1: it holds B alone, fully populated, and no entry for A.
C17_OnlyPresentSeries ==
  C17_Scenario =>
    /\ outcome.kind # "error"
    /\ outcome.kind = "result" =>
         /\ Len(outcome.series) = 1
         /\ ~IsMissing(outcome.series[1].q)
         /\ FullyPopulated(outcome.series[1])
\* The scenario has returned, B's task finished after A was found missing.
C17_Witness ==
  /\ C17_Scenario
  /\ outcome.kind = "result"
  /\ mode = "eager"
  /\ \E a \in QIdx : IsMissing(a) /\ tasks[a].is_done_flag
                     /\ \A k \in DOMAIN outcome.series : outcome.series[k].q # a

\* C18: the Chunking drain loop (_fetch_until_complete) returns normally only
\* when every task in the lookup is done: a step that takes Phase B to its
\* return leaves no unfinished task in the lookup.
C18_DrainLoopReturnsDone ==
  [][(pc = "phaseB" /\ pc' = "done")
       => AllDone(ts_task_lookup', tasks', subs')]_vars

\* C19: a subtask popped off a heap into next_items / next_subtasks without
\* being emitted is submitted on a later tick, also when both heaps are empty
\* on every later tick: when the fetch has returned, no subtask with data left
\* to fetch is still held in the partial batch.
C19_BufferedSubmitted ==
  (mode = "chunking" /\ pc \in {"done", "returned"})
    => \A i \in DOMAIN next_subtasks : subs[next_subtasks[i]].is_done

\* C20: batch assembly never emits a batch with zero subtasks, so the mean
\* priority of a batch is always defined, also when the heaps hold only
\* subtasks already marked done and the emit-partial signal is set: every
\* submitted batch has a subtask, and no tick ends in statistics.mean of
\* nothing.
C20_NoEmptyBatch ==
  /\ \A f \in DOMAIN futs : futs[f].kind = "batch" => futs[f].subtask_lst # <<>>
  /\ ~(outcome.kind = "error" /\ outcome.error = "StatisticsError")

(* C21: in Eager mode the request item is built when a worker takes the
   submission, from the state of that moment: with nothing left to fetch the
   submission completes with no request sent (it is never running, its item
   list stays empty); and the fetch_all round that consumes such a null
   result only stops tracking it: no submission is added and no task or
   subtask changes. *)
C21_PayloadBuiltAtDequeue ==
  /\ [][\A f \in DOMAIN futs :
          (futs[f].kind = "jit" /\ futs[f].state = "pending"
             /\ futs'[f].state \notin {"pending", "cancelled"})
          => LET item == get_next_payload(futs[f].subtask_lst[1], tasks, subs)
             IN /\ futs'[f].items = item
                /\ futs'[f].state = IF item = <<>> THEN "done" ELSE "running"]_vars
  /\ [][\A f \in tracked :
          (pc = "eager" /\ futs[f].state = "done" /\ futs[f].items = <<>>
             /\ tracked \ tracked' = {f})
          => /\ futs' = futs
             /\ tracked' = tracked \ {f}
             /\ tasks' = tasks
             /\ subs' = subs
             /\ ts_task_lookup' = ts_task_lookup
             /\ pc' = pc]_vars

\* A null result was dropped while the loop goes on, and the subtask has no
\* other submission.
C21_Witness ==
  /\ pc = "eager"
  /\ tracked # {}
  /\ \E f \in DOMAIN futs \ tracked :
       /\ futs[f].kind = "jit"
       /\ futs[f].state = "done"
       /\ futs[f].items = <<>>
       /\ \A g \in DOMAIN futs \ {f} :
            futs[g].subtask_lst[1] # futs[f].subtask_lst[1]

(* C22: in Chunking mode no batch submitted to the pool holds a subtask whose
   parent task is done when the batch is submitted, subtasks carried over in
   the partial payload (next_items, next_subtasks) included. *)
C22_NoDoneParentInBatch ==
  [][\A g \in DOMAIN futs' \ DOMAIN futs :
       futs'[g].kind = "batch"
       => \A j \in DOMAIN futs'[g].subtask_lst :
            ~TaskIsDone(tasks'[subs'[futs'[g].subtask_lst[j]].parent], subs')]_vars

(* C23: a subtask has at most one outstanding submission. In Eager mode at
   most one tracked future carries a given subtask, and a subtask that
   already had a submission gets a new one only when it and its parent are
   not done; in Chunking mode a subtask occurs at most once over the two
   heaps, the partial payload and the tracked batches taken together. *)
Occurrences(seq, s) == Cardinality({j \in DOMAIN seq : seq[j] = s})

Outstanding(s) ==
  Cardinality({j \in DOMAIN agg_subtask_pool : agg_subtask_pool[j].sub = s})
  + Cardinality({j \in DOMAIN raw_subtask_pool : raw_subtask_pool[j].sub = s})
  + Occurrences(next_subtasks, s)
  + SeqSum([f \in DOMAIN futs |->
              IF f \in tracked THEN Occurrences(futs[f].subtask_lst, s) ELSE 0])

C23_OneOutstandingSubmission ==
  /\ [](\A s \in DOMAIN subs : Outstanding(s) <= 1)
  /\ [][\A g \in DOMAIN futs' \ DOMAIN futs :
          (futs'[g].kind = "jit"
             /\ \E f \in DOMAIN futs : futs[f].subtask_lst = futs'[g].subtask_lst)
          => LET s == futs'[g].subtask_lst[1]
             IN /\ ~subs'[s].is_done
                /\ ~TaskIsDone(tasks'[subs'[s].parent], subs')
                /\ \A f \in tracked' \ {g} : futs'[f].subtask_lst # <<s>>]_vars

\* An Eager subtask on its second submission, and (in another fetch) a
\* Chunking subtask back in a heap after its batch was consumed.
C23_Witness ==
  \/ /\ pc = "eager"
     /\ \E f \in DOMAIN futs \ tracked, g \in tracked :
          /\ f < g
          /\ futs[f].subtask_lst = futs[g].subtask_lst
          /\ futs[g].state = "running"
  \/ /\ pc = "phaseB"
     /\ \E f \in DOMAIN futs \ tracked, j \in DOMAIN agg_subtask_pool :
          /\ futs[f].kind = "batch"
          /\ \E k \in DOMAIN futs[f].subtask_lst :
               futs[f].subtask_lst[k] = agg_subtask_pool[j].sub

(* C24: in Eager mode, a completion with a missing-identifier error for a
   task whose query has ignore_unknown_ids. As stated: the task is marked
   done and removed from the lookup, and every other tracked future of the
   task is cancelled and no longer tracked. *)
ToleratedMissingConsumed(q) ==
  /\ pc = "eager"
  /\ all_queries[q].ignore_unknown_ids
  /\ ~TaskIsDone(tasks[q], subs)
  /\ \E f \in tracked \ tracked' :
       /\ subs[futs[f].subtask_lst[1]].parent = q
       /\ futs[f].state = "done"
       /\ futs[f].items # <<>>
       /\ Series(futs[f].items[1].ident) = Missing

C24_OthersCancelled ==
  [][\A q \in QIdx :
       ToleratedMissingConsumed(q)
       => /\ TaskIsDone(tasks'[q], subs')
          /\ \A j \in DOMAIN ts_task_lookup' : ts_task_lookup'[j] # q
          /\ FuturesOf(q, futs', tracked', subs') = {}
          /\ Cardinality({g \in FuturesOf(q, futs, tracked, subs) :
                            futs'[g].state # "cancelled"}) <= 1]_vars

(* C24, amended: the task is marked done and removed from the lookup; every
   other tracked future of the task is removed from tracking, cancelled if no
   worker had started it and left as it is otherwise; the tasks, subtasks and
   futures of the other queries are unchanged and the loop goes on; and from
   then on nothing changes the task or brings it back into the lookup. *)
C24_MissingTolerated ==
  /\ [][\A q \in QIdx :
          ToleratedMissingConsumed(q)
          => /\ TaskIsDone(tasks'[q], subs')
             /\ \A j \in DOMAIN ts_task_lookup' : ts_task_lookup'[j] # q
             /\ \A p \in QIdx \ {q} :
                  (\E j \in DOMAIN ts_task_lookup : ts_task_lookup[j] = p)
                  <=> (\E j \in DOMAIN ts_task_lookup' : ts_task_lookup'[j] = p)
             /\ FuturesOf(q, futs', tracked', subs') = {}
             /\ \A g \in FuturesOf(q, futs, tracked, subs) :
                  futs'[g] = IF futs[g].state = "pending"
                             THEN [futs[g] EXCEPT !.state = "cancelled"]
                             ELSE futs[g]
             /\ DOMAIN futs' = DOMAIN futs
             /\ \A g \in DOMAIN futs \ FuturesOf(q, futs, tracked, subs) :
                  /\ futs'[g] = futs[g]
                  /\ g \in tracked' <=> g \in tracked
             /\ \A p \in QIdx \ {q} : tasks'[p] = tasks[p]
             /\ subs' = subs
             /\ pc' = "eager"
             /\ outcome' = outcome]_vars
  /\ [][\A q \in QIdx :
          (mode = "eager" /\ tasks[q].created
             /\ \A j \in DOMAIN ts_task_lookup : ts_task_lookup[j] # q)
          => /\ tasks'[q] = tasks[q]
             /\ \A j \in DOMAIN ts_task_lookup' : ts_task_lookup'[j] # q
             /\ FuturesOf(q, futs', tracked', subs') = {}]_vars

\* The tolerated missing task is out of the lookup and untracked while a
\* request of it is still running, and the loop goes on.
C24_Witness ==
  /\ pc = "eager"
  /\ \E q \in QIdx :
       /\ tasks[q].created
       /\ all_queries[q].ignore_unknown_ids
       /\ IsMissing(q)
       /\ \A j \in DOMAIN ts_task_lookup : ts_task_lookup[j] # q
       /\ \E f \in DOMAIN futs \ tracked :
            /\ subs[futs[f].subtask_lst[1]].parent = q
            /\ futs[f].state = "running"

(* C25: in Eager mode, when a completion makes a task with a limit done
   while the lookup still holds an unfinished task, every submission of that
   task no worker has started is cancelled, no tracked future belongs to the
   task afterwards, and the futures of the other tasks are unchanged and
   tracked as before. *)
LimitedTaskFinishes(q) ==
  /\ pc = "eager"
  /\ has_limit(q)
  /\ ~TaskIsDone(tasks[q], subs)
  /\ TaskIsDone(tasks'[q], subs')
  /\ ~AllDone(ts_task_lookup', tasks', subs')

C25_LimitedTaskCancelled ==
  [][\A q \in QIdx :
       LimitedTaskFinishes(q)
       => /\ \A g \in DOMAIN futs' :
               subs'[futs'[g].subtask_lst[1]].parent = q
               => /\ futs'[g].state # "pending"
                  /\ g \notin tracked'
          /\ \A g \in DOMAIN futs :
               IF subs[futs[g].subtask_lst[1]].parent = q
               THEN futs'[g] = IF futs[g].state = "pending"
                               THEN [futs[g] EXCEPT !.state = "cancelled"]
                               ELSE futs[g]
               ELSE /\ futs'[g] = futs[g]
                    /\ g \in tracked' <=> g \in tracked
          /\ pc' = "eager"]_vars

\* A limited task is done with a submission of it cancelled, and another
\* task of the lookup is unfinished with a tracked future.
C25_Witness ==
  /\ pc = "eager"
  /\ \E q \in QIdx, p \in QIdx :
       /\ has_limit(q)
       /\ TaskIsDone(tasks[q], subs)
       /\ \E g \in DOMAIN futs :
            /\ subs[futs[g].subtask_lst[1]].parent = q
            /\ futs[g].state = "cancelled"
       /\ p # q
       /\ ~TaskIsDone(tasks[p], subs)
       /\ FuturesOf(p, futs, tracked, subs) # {}

(* C26: a worker neither reads nor writes the scheduler's task and subtask
   state. What a worker does with a submission then depends on the submission
   alone: for the submissions of _create_initial_tasks, which no step changes
   before a worker takes them, the request sent is the one the subtask gave
   when it was submitted (and none if it gave none); and a worker's step
   changes nothing but the future. *)
C26_WorkerUsesSubmittedPayload ==
  [][\A f \in DOMAIN SplitSubs :
       (futs[f].state = "pending" /\ futs'[f].state \in {"running", "done"})
       => /\ futs'[f].items = get_next_payload(f, SplitTasks, SplitSubs)
          /\ UNCHANGED <<tasks, subs, tracked, ts_task_lookup>>]_vars

(* C27: in Chunking mode a Phase B batch exists only when every Phase A
   request has completed and its answer has been handled; when Phase A ends
   with a missing series collected for raising, "not found" is raised and no
   batch is submitted, then or later; and when Phase A ends with every task
   of the lookup done, fetch_all returns the result without submitting any
   batch. *)
PhaseBBatches == {f \in DOMAIN futs : futs[f].kind = "batch"}

C27_PhaseBAfterPhaseA ==
  /\ [](mode = "chunking" /\ PhaseBBatches # {}
          => /\ pc \notin {"selected", "phaseA"}
             /\ missing_to_raise = {}
             /\ \A f \in DOMAIN futs :
                  futs[f].kind = "initial"
                  => futs[f].state = "done" /\ f \notin tracked)
  /\ [][(pc = "phaseA" /\ pc' # "phaseA")
          => /\ tracked = {}
             /\ \A f \in DOMAIN futs : futs[f].state = "done"
             /\ missing_to_raise # {}
                  => /\ pc' = "error"
                     /\ outcome'.kind = "error"
                     /\ outcome'.error = "not_found"
                     /\ futs' = futs
             /\ (missing_to_raise = {} /\ AllDone(ts_task_lookup, tasks, subs))
                  => /\ pc' = "done"
                     /\ outcome' = _finalize_tasks(ts_task_lookup, tasks, subs)
                     /\ futs' = futs
             /\ (missing_to_raise = {} /\ ~AllDone(ts_task_lookup, tasks, subs))
                  => pc' \in {"phaseB", "error"}]_vars
  /\ [][(mode = "chunking" /\ pc \in {"done", "error", "returned"})
          => DOMAIN futs' = DOMAIN futs]_vars

\* "not found" was raised at the end of Phase A although a task was left
\* unfinished, and no batch was submitted.
C27_Witness ==
  /\ mode = "chunking"
  /\ pc = "error"
  /\ outcome.kind = "error"
  /\ outcome.error = "not_found"
  /\ PhaseBBatches = {}
  /\ \E q \in QIdx : tasks[q].created /\ ~TaskIsDone(tasks[q], subs)

(* C28: Phase A submits max(max_workers, ceil(n_queries / FETCH_TS_LIMIT))
   requests, each at priority 0 and holding one part of the aggregate queries
   followed by one part of the raw queries; every single-series query is an
   item of exactly one of them, once; and a request naming a missing series
   is answered and handled like any other (ignoreUnknownIds=true), the loop
   over the Phase A requests going on. *)
InitialRequests == {f \in DOMAIN futs : futs[f].kind = "initial"}

\* The queries named by the items of the Phase A requests, and how many
\* items there are: as many items as queries, naming every query, is every
\* query named exactly once.
QueriesOfItems ==
  UNION {{futs[f].items[j].q : j \in DOMAIN futs[f].items} : f \in InitialRequests}

NInitialItems ==
  SeqSum([f \in DOMAIN futs |->
            IF futs[f].kind = "initial" THEN Len(futs[f].items) ELSE 0])

C28_InitialRequests ==
  /\ [](mode = "chunking" /\ pc \notin {"init", "selected"}
          => /\ Cardinality(InitialRequests) =
                  (IF max_workers * FETCH_TS_LIMIT >= Len(all_queries)
                   THEN max_workers
                   ELSE (Len(all_queries) + FETCH_TS_LIMIT - 1) \div FETCH_TS_LIMIT)
             /\ \A f \in InitialRequests :
                  /\ futs[f].pnum = 0
                  /\ Len(futs[f].items)
                       = Len(futs[f].chunk_agg_qs) + Len(futs[f].chunk_raw_qs)
                  /\ \A j \in DOMAIN futs[f].items :
                       /\ futs[f].items[j].is_raw_query
                            = all_queries[futs[f].items[j].q].is_raw_query
                       /\ futs[f].items[j].ident
                            = all_queries[futs[f].items[j].q].ident
                       /\ futs[f].items[j].is_raw_query
                            <=> j > Len(futs[f].chunk_agg_qs)
             /\ QueriesOfItems = QIdx
             /\ NInitialItems = Len(all_queries))
  /\ [][(pc = "phaseA" /\ tracked # {}) => (pc' = "phaseA" /\ outcome' = outcome)]_vars

\* More requests than workers, one of them with an aggregate item followed by
\* raw items, all answered.
C28_Witness ==
  /\ mode = "chunking"
  /\ pc = "phaseA"
  /\ Cardinality(InitialRequests) > max_workers
  /\ \A f \in InitialRequests : futs[f].state = "done"
  /\ \E f \in InitialRequests :
       /\ futs[f].chunk_agg_qs # <<>>
       /\ futs[f].chunk_raw_qs # <<>>

(* C29: every Phase A request holds at least one item, also when a flavor
   has fewer queries than there are requests. *)
C29_NoEmptyInitialRequest ==
  \A f \in DOMAIN futs : futs[f].kind = "initial" => futs[f].items # <<>>

(* C30: when the answer of a Phase A request is handled, a task is created
   for exactly the queries of the request whose series exists, each seeded
   with the page the server returned for its own item (its identifier, the
   limit sent for it, which is the one recorded in initial_query_limits),
   also when series of the request are missing; the missing queries that do
   not tolerate it are collected for raising. *)
FirstPage(item) ==
  ServerPageEnd(item.ident, item.start, item.end, item.limit) - item.start

C30_SeededWithOwnItem ==
  [][\A f \in tracked \ tracked' :
       (pc = "phaseA" /\ futs[f].kind = "initial")
       => /\ \A j \in DOMAIN futs[f].items :
               LET item == futs[f].items[j]
               IN /\ item.ident = all_queries[item.q].ident
                  /\ item.limit = initial_query_limits[item.q]
                  /\ IF IsMissing(item.q)
                     THEN /\ ~tasks'[item.q].created
                          /\ item.q \in missing_to_raise'
                               <=> ~all_queries[item.q].ignore_unknown_ids
                     ELSE /\ tasks'[item.q].created
                          /\ tasks'[item.q].seed = FirstPage(item)
                          /\ tasks'[item.q].n_dps_fetched = FirstPage(item)
                          /\ tasks'[item.q].is_done_flag
                               <=> \/ FirstPage(item) < item.limit
                                   \/ item.start + FirstPage(item) >= RangeEnd
                                   \/ /\ has_limit(item.q)
                                      /\ FirstPage(item) >= all_queries[item.q].limit
                          /\ \E k \in DOMAIN ts_task_lookup' :
                               ts_task_lookup'[k] = item.q
          /\ \A q \in QIdx :
               (\A j \in DOMAIN futs[f].items : futs[f].items[j].q # q)
               => tasks'[q] = tasks[q]]_vars

\* A handled Phase A request whose first item named a missing series and
\* whose later item got a task seeded with its own, different first page.
C30_Witness ==
  \E f \in DOMAIN futs \ tracked :
    /\ futs[f].kind = "initial"
    /\ futs[f].state = "done"
    /\ \E i \in DOMAIN futs[f].items, j \in DOMAIN futs[f].items,
          k \in DOMAIN futs[f].items :
         /\ i < j /\ j < k
         /\ IsMissing(futs[f].items[i].q)
         /\ tasks[futs[f].items[j].q].created
         /\ tasks[futs[f].items[k].q].created
         /\ tasks[futs[f].items[j].q].seed # tasks[futs[f].items[k].q].seed

(* C31: _find_initial_query_limits returns (so its loop ends) one value per
   series, each between 0 and the series' own limit, summing to at most
   max_limit. *)
C31_LimitsWithinCaps ==
  pc = "limits"
    => /\ DOMAIN initial_query_limits = DOMAIN all_queries
       /\ \A j \in QIdx :
            /\ initial_query_limits[j] >= 0
            /\ initial_query_limits[j] <= capped_limit(all_queries[j])
       /\ SeqSum(initial_query_limits)
            <= RequestMaxLimit(all_queries[1].is_raw_query)

\* Three series whose limits exceed an even share: the values returned use
\* max_limit up to the remainder no whole share can be made of.
C31_Witness ==
  /\ pc = "limits"
  /\ Len(all_queries) = 3
  /\ \A j \in QIdx : initial_query_limits[j] < capped_limit(all_queries[j])
  /\ SeqSum(initial_query_limits)
       = RequestMaxLimit(all_queries[1].is_raw_query) - 1

(* C39: when the series' own limits sum to at most max_limit,
   _find_initial_query_limits gives every series exactly its own limit. *)
C39_SmallLimitsGrantedInFull ==
  (/\ pc = "limits"
   /\ SeqSum(ChunkCappedLimits) <= RequestMaxLimit(all_queries[1].is_raw_query))
    => initial_query_limits = ChunkCappedLimits

\* The limits fit into max_limit and one of them is above an even share, so
\* it is only granted in full by a later round.
C39_Witness ==
  /\ pc = "limits"
  /\ SeqSum(ChunkCappedLimits) <= RequestMaxLimit(all_queries[1].is_raw_query)
  /\ \E j \in QIdx :
       /\ ChunkCappedLimits[j]
            > RequestMaxLimit(all_queries[1].is_raw_query) \div Len(all_queries)
       /\ initial_query_limits[j] = ChunkCappedLimits[j]

(* C32: the Phase B recomputation caps the per-request limit of every
   unfinished task at floor(100 000 / n_raw_chunk) or floor(10 000 /
   n_agg_chunk), n_chunk = min(100, ceil(unfinished of the flavor / 10)), at
   least 1; its subtasks carry that cap, which never exceeds the request cap
   of the flavor, so the next payload of every live subtask in a heap fits
   into an empty batch, and a tick that finds the gate open leaves no
   subtask in the heaps. *)
NUnfinished(is_raw) ==
  Cardinality({j \in DOMAIN ts_task_lookup :
                 /\ all_queries[ts_task_lookup[j]].is_raw_query = is_raw
                 /\ ~TaskIsDone(tasks[ts_task_lookup[j]], subs)})

ChunkCap(n_unfinished, is_raw) ==
  (IF is_raw THEN 100000 ELSE 10000)
    \div Min(100, Max(1, (n_unfinished + 9) \div 10))

HeapPayloadsFit(pool, cap) ==
  \A k \in DOMAIN pool :
    LET Fits(next_payload) ==
          next_payload # <<>> => next_payload[1].limit <= cap
    IN Fits(get_next_payload(pool[k].sub, tasks, subs))

C32_ChunkingLimit ==
  /\ [][(pc = "phaseA" /\ pc' = "phaseB")
          => \A j \in DOMAIN ts_task_lookup :
               LET q == ts_task_lookup[j]
                   is_raw == all_queries[q].is_raw_query
               IN ~TaskIsDone(tasks[q], subs)
                    => /\ tasks'[q].max_query_limit
                            = ChunkCap(NUnfinished(is_raw), is_raw)
                       /\ \A s \in tasks'[q].subtasks :
                            subs'[s].max_query_limit = tasks'[q].max_query_limit]_vars
  /\ [](pc = "phaseB"
          => /\ \A s \in DOMAIN subs :
                  /\ subs[s].max_query_limit >= 1
                  /\ subs[s].max_query_limit
                       <= (IF all_queries[subs[s].parent].is_raw_query
                           THEN 100000 ELSE 10000)
             /\ HeapPayloadsFit(agg_subtask_pool, 10000)
             /\ HeapPayloadsFit(raw_subtask_pool, 100000))
  /\ [][(/\ pc' = "phaseB"
         /\ <<pc, tracked>> # <<pc', tracked'>>
         /\ agg_subtask_pool' # <<>> \/ raw_subtask_pool' # <<>>)
          => qsize(futs') > 2 * max_workers]_vars

\* More than ten unfinished raw tasks: their cap is a fraction of 100 000 and
\* a Phase B request was sent with an item asking for exactly that cap.
C32_Witness ==
  /\ pc = "phaseB"
  /\ \E f \in DOMAIN futs :
       /\ futs[f].kind = "batch"
       /\ futs[f].state = "done"
       /\ \E k \in DOMAIN futs[f].items :
            /\ futs[f].items[k].is_raw_query
            /\ futs[f].items[k].limit = tasks[futs[f].items[k].q].max_query_limit
            /\ futs[f].items[k].limit < 100000

(* C33: on a scheduler tick of the Chunking fetcher a combined batch is
   submitted only if the gate is open and either the batch holds 100 items,
   or the next subtask of a flavor did not fit the flavor's limit cap while
   the other flavor was full too or had nothing left, or the batch is the
   last of the tick, both heaps are drained and the pending count seen at
   the tick is at most min(5, ceil(max_workers / 2)). What is collected
   otherwise stays in the buffer, within the caps, and is in no batch
   submitted on that tick. *)
RECURSIVE ItemsAfter(_, _, _)
ItemsAfter(fs, f, buffered) ==
  IF f >= Len(fs) THEN buffered
  ELSE fs[f + 1].items \o ItemsAfter(fs, f + 1, buffered)

NothingLater(later, is_raw) ==
  \A k \in DOMAIN later : later[k].is_raw_query # is_raw

NextDoesNotFit(items, later, is_raw) ==
  \E k \in DOMAIN later :
    /\ later[k].is_raw_query = is_raw
    /\ \A l \in 1..(k - 1) : later[l].is_raw_query # is_raw
    /\ LimitUsed(items, is_raw) + later[k].limit
         > (IF is_raw THEN 100000 ELSE 10000)

EmitReason(fs, f, buffered, drained, shallow) ==
  LET Reason(items, later) ==
        \/ Len(items) = 100
        \/ /\ NextDoesNotFit(items, later, FALSE)
           /\ NextDoesNotFit(items, later, TRUE) \/ NothingLater(later, TRUE)
        \/ /\ NextDoesNotFit(items, later, TRUE)
           /\ NextDoesNotFit(items, later, FALSE) \/ NothingLater(later, FALSE)
        \/ f = Len(fs) /\ buffered = <<>> /\ drained /\ shallow
  IN Reason(fs[f].items, ItemsAfter(fs, f, buffered))

C33_EmitOnlyOnCapOrShallow ==
  [][(/\ mode = "chunking"
      /\ pc \in {"phaseA", "phaseB"}
      /\ <<pc, tracked>> # <<pc', tracked'>>)
       => /\ \A f \in (Len(futs) + 1)..Len(futs') :
               /\ futs'[f].kind = "batch"
               /\ qsize(futs) <= 2 * max_workers
               /\ EmitReason(futs', f, next_items',
                             agg_subtask_pool' = <<>> /\ raw_subtask_pool' = <<>>,
                             qsize(futs) <= Min(5, (max_workers + 1) \div 2))
               /\ \A k \in DOMAIN next_subtasks' :
                    \A l \in DOMAIN futs'[f].subtask_lst :
                      futs'[f].subtask_lst[l] # next_subtasks'[k]
          /\ (pc' = "phaseB" /\ next_items' # <<>>)
               => /\ Len(next_items') <= 100
                  /\ LimitUsed(next_items', FALSE) <= 10000
                  /\ LimitUsed(next_items', TRUE) <= 100000
          /\ qsize(futs) > 2 * max_workers
               => /\ Len(futs') = Len(futs)
                  /\ next_items' = next_items
                  /\ next_subtasks' = next_subtasks]_vars

\* Two batches were submitted on one tick, the first because the next
\* aggregate subtask did not fit, and a later tick left a subtask buffered.
C33_Witness ==
  /\ pc = "phaseB"
  /\ next_items # <<>>
  /\ \E f \in DOMAIN futs :
       /\ f < Len(futs)
       /\ futs[f].kind = "batch"
       /\ futs[f + 1].kind = "batch"
       /\ Len(futs[f].items) < 100
       /\ NextDoesNotFit(futs[f].items, futs[f + 1].items, FALSE)

(* C34: in Chunking mode every subtask of a done PerSeriesTask is marked
   done; marking removes nothing from the heaps (a tick that finds the gate
   closed leaves every heap entry where it was); and a subtask that is
   marked done, or has no next payload, when batch assembly takes it from
   its heap goes into no batch and not into the buffer, it is dropped. *)
InHeaps(agg, raw) ==
  {agg[k].sub : k \in DOMAIN agg} \cup {raw[k].sub : k \in DOMAIN raw}

EntriesKept(before, after) ==
  \A k \in DOMAIN before : \E l \in DOMAIN after : after[l] = before[k]

DeadSubtask(s, tks, sbs) ==
  sbs[s].is_done \/ get_next_payload(s, tks, sbs) = <<>>

C34_DoneSubtasksDropped ==
  /\ [](mode = "chunking" /\ pc \in {"phaseB", "done"}
          => \A q \in QIdx :
               (tasks[q].created /\ TaskIsDone(tasks[q], subs))
                 => \A s \in tasks[q].subtasks : subs[s].is_done)
  /\ [][(/\ pc = "phaseB"
         /\ tracked' # tracked
         /\ qsize(futs) > 2 * max_workers)
          => /\ EntriesKept(agg_subtask_pool, agg_subtask_pool')
             /\ EntriesKept(raw_subtask_pool, raw_subtask_pool')]_vars
  /\ [][(/\ pc = "phaseB"
         /\ tracked' # tracked
         /\ qsize(futs) <= 2 * max_workers)
          => /\ \A f \in (Len(futs) + 1)..Len(futs') :
                  \A l \in DOMAIN futs'[f].subtask_lst :
                    l > futs'[f].carried
                      => ~DeadSubtask(futs'[f].subtask_lst[l], tasks', subs')
             /\ \A k \in DOMAIN next_subtasks' :
                  (Len(futs') > Len(futs) \/ k > Len(next_subtasks))
                    => ~DeadSubtask(next_subtasks'[k], tasks', subs')
             /\ pc' # "error"
                  => agg_subtask_pool' = <<>> /\ raw_subtask_pool' = <<>>]_vars

\* A subtask of a task that has reached its limit is marked done and still
\* sits in its heap.
C34_Witness ==
  /\ pc = "phaseB"
  /\ \E s \in InHeaps(agg_subtask_pool, raw_subtask_pool) :
       /\ subs[s].is_done
       /\ TaskIsDone(tasks[subs[s].parent], subs)

(* C35: in Eager mode a worker sends a request for a series with limit L
   only while fewer than L datapoints have been fetched, and asks for at
   most what is left of L. With max_workers = 2 and one query with a limit
   of one and a half requests (150 000 with requests of at most 100 000
   datapoints; the scenario's 150 and 100), exactly two requests are made,
   the second with a limit of a third of L (50 000), and 150 000 datapoints
   are returned. *)
RequestsSent(q) ==
  {f \in DOMAIN futs :
     /\ futs[f].kind = "jit"
     /\ futs[f].state \in {"running", "done"}
     /\ futs[f].items # <<>>
     /\ futs[f].items[1].q = q}

OneAndAHalfRequests ==
  /\ max_workers = 2
  /\ all_queries = <<Query(6, TRUE, 150000, FALSE)>>

C35_LimitedRequests ==
  /\ [][\A f \in DOMAIN futs :
          (/\ futs[f].kind = "jit"
           /\ futs[f].state = "pending"
           /\ futs'[f].state = "running")
            => /\ futs'[f].items # <<>>
               /\ LET Asked(item, q) ==
                        has_limit(q)
                          => /\ tasks[q].n_dps_fetched < all_queries[q].limit
                             /\ item.limit >= 1
                             /\ item.limit
                                  <= all_queries[q].limit - tasks[q].n_dps_fetched
                  IN Asked(futs'[f].items[1], futs'[f].items[1].q)]_vars
  /\ [](OneAndAHalfRequests
          => /\ Cardinality(RequestsSent(1)) <= 2
             /\ \A f \in RequestsSent(1) :
                  futs[f].items[1].limit
                    = (IF f = 1 THEN 100000 ELSE 50000)
             /\ pc \in {"done", "returned"}
                  => /\ Cardinality(RequestsSent(1)) = 2
                     /\ outcome.kind = "result"
                     /\ Len(outcome.series) = 1
                     /\ outcome.series[1].dps = <<<<0, 150000>>>>)

\* The fetch of the one-and-a-half-requests query has returned.
C35_Witness ==
  /\ OneAndAHalfRequests
  /\ pc = "returned"
  /\ Cardinality(RequestsSent(1)) = 2
  /\ tasks[1].n_dps_fetched = 150000

(* C36: whenever a worker starts a pending submission, no other pending
   submission has a smaller priority value, and none of the same priority
   was submitted earlier. *)
Started(f) ==
  /\ f \in DOMAIN futs
  /\ futs[f].state = "pending"
  /\ futs'[f].state \in {"running", "done"}

C36_SmallestPriorityFirst ==
  [][\A f \in DOMAIN futs :
       Started(f)
         => \A g \in DOMAIN futs :
              (g # f /\ futs[g].state = "pending")
                => /\ futs[f].pnum * futs[g].pden <= futs[g].pnum * futs[f].pden
                   /\ futs[f].pnum * futs[g].pden = futs[g].pnum * futs[f].pden
                        => f < g]_vars

\* A worker has started a submission of smaller priority value than one
\* that was submitted before it and still waits.
C36_Witness ==
  \E f, g \in DOMAIN futs :
    /\ g < f
    /\ futs[g].state = "pending"
    /\ futs[f].state \in {"running", "done"}
    /\ futs[f].pnum * futs[g].pden < futs[g].pnum * futs[f].pden

(* C37: at every point of a fetch, two different subtasks of the same
   PerSeriesTask that are both not done cover disjoint time ranges, the
   range of a subtask being what it still has to fetch, [start, end); this
   includes a subtask that has split and its new subtask. *)
LiveSubtasks(q) == {s \in tasks[q].subtasks : ~subs[s].is_done}

C37_LiveSubtasksDisjoint ==
  \A q \in QIdx :
    tasks[q].created
      => \A s, t \in LiveSubtasks(q) :
           s # t => \/ subs[s].end <= subs[t].start
                    \/ subs[t].end <= subs[s].start

\* A subtask has split on a full page: it and the subtask made for the later
\* half of what was left are both live, the one ending where the other starts.
C37_Witness ==
  /\ n_splits > 0
  /\ \E q \in QIdx :
       /\ tasks[q].created
       /\ \E s, t \in LiveSubtasks(q) :
            /\ s < t
            /\ subs[s].start > subs[s].orig_start
            /\ subs[s].start < subs[s].end
            /\ subs[s].end = subs[t].start
            /\ subs[t].start = subs[t].orig_start
            /\ subs[t].priority = subs[s].priority + 1

(* C38: at every point of _bin_datapoints, and in what it returns, every
   bin (the objects of one insert request) holds at most DPS_LIMIT
   datapoints and at most POST_DPS_OBJECTS_LIMIT objects; a bin is never
   empty, the object added last has at least one datapoint and the bin
   counts at least one datapoint per object. *)
C38_BinsWithinLimits ==
  /\ \A b \in DOMAIN bins :
       /\ bins[b].current_num_datapoints <= 100000
       /\ Len(bins[b].dps_object_list) <= 10000
       /\ Len(bins[b].dps_object_list) >= 1
       /\ bins[b].dps_object_list[Len(bins[b].dps_object_list)] >= 1
       /\ bins[b].current_num_datapoints >= Len(bins[b].dps_object_list)
  /\ pc = "binned"
       => /\ Len(outcome.groups) = Len(bins)
          /\ \A g \in DOMAIN outcome.groups :
               outcome.groups[g] = bins[g].dps_object_list

\* One request holds exactly 10 000 objects, the next object did not fit
\* into it, and another request holds a chunk of 100 000 datapoints.
C38_Witness ==
  /\ pc = "binned"
  /\ Len(outcome.groups) >= 3
  /\ Len(outcome.groups[1]) = 10000
  /\ \E g \in DOMAIN outcome.groups : outcome.groups[g] = <<100000>>
====
